---- MODULE Spec2Model ----
(***************************************************************************)
(* A model of the batch pipeline of llm-tool:                              *)
(*   - the useBatchProcessor hook (processBatch / stopBatch) together with *)
(*     the reset operation of the input area, over the batchItems state;   *)
(*   - retryWithBackoff and the request wrapper generateGenericOpenAI-     *)
(*     Request built on it;                                                *)
(*   - the RequestQueue, the manual evaluation updates of the result table *)
(*     and the service functions evaluateSummary and generateSummary.      *)
(* JavaScript runs every handler to completion: one action of this module  *)
(* is one macrotask (a user event, the settling of a network call or a     *)
(* timer) followed by all the promise continuations it makes runnable.     *)
(***************************************************************************)
EXTENDS Integers, Sequences, FiniteSets, TLC

VARIABLES
    batchItems,          \* the React state batchItems: a sequence of BatchItem
    isGenerating,        \* the hook's isGenerating state
    abortControllerRef,  \* abortControllerRef.current: 0 is null, r the controller made by run r
    runs,                \* one record per processBatch invocation (its closure and position)
    started,             \* number of processBatch invocations so far
    lastDone,            \* history: the latest item a run wrote back as 'done'
    config,              \* the AppConfig the hook is given
    caller,              \* who called retryWithBackoff: "none", "direct" or "invoker"
    rpc,                 \* where the retryWithBackoff invocation is
    maxRetries,          \* its parameter maxRetries
    baseDelay,           \* its parameter baseDelay
    attempt,             \* its loop variable
    lastError,           \* its local lastError (Null while undefined)
    settled,             \* what its promise settled with (Null while pending)
    fnCalls,             \* history: number of invocations of fn
    delays,              \* history: the setTimeout delays waited, in order
    thrown,              \* history: what the failed invocations of fn threw, in order
    lastFetch,           \* history: what the latest fetch of generateGenericOpenAIRequest ended in
    maxConcurrent,       \* RequestQueue: the capacity given to the constructor
    running,             \* RequestQueue: this.running
    call,                \* where each add() call is: "none", "waiting", "running", "resolved", "rejected"
    timers,              \* the pending 100 ms timers of the waiting add() calls, in firing order
    addOrder,            \* history: the add() calls in the order they were made
    startOrder,          \* history: the add() calls in the order their fn was invoked
    releases,            \* history: how often each add() call decremented this.running
    edits,               \* history: number of manual evaluation updates so far
    toggles,             \* history: number of toggleActive calls so far
    service,             \* the call of evaluateSummary or generateSummary: its arguments and position
    requests,            \* history: number of generateGenericOpenAIRequest invocations of that call
    returned,            \* what the promise of that call settled with
    prompts              \* history: the buildPrompt calls made, with what each returned

batchVars == <<batchItems, isGenerating, abortControllerRef, runs, started, lastDone, config>>

retryVars == <<caller, rpc, maxRetries, baseDelay, attempt, lastError, settled,
               fnCalls, delays, thrown, lastFetch>>

queueVars == <<maxConcurrent, running, call, timers, addOrder, startOrder, releases>>

reviewVars == <<edits, toggles>>

serviceVars == <<service, requests, returned, prompts>>

vars == <<batchItems, isGenerating, abortControllerRef, runs, started, lastDone, config,
          caller, rpc, maxRetries, baseDelay, attempt, lastError, settled,
          fnCalls, delays, thrown, lastFetch,
          maxConcurrent, running, call, timers, addOrder, startOrder, releases,
          edits, toggles, service, requests, returned, prompts>>

----------------------------------------------------------------------------
(* Bounds of the model *)

NumItems == 3
MaxRuns == 2

----------------------------------------------------------------------------
(* Data *)

Null == 0

NoEntries == <<>>      \* the empty object {}

RunIds == 1..MaxRuns

\* The run configurations that exist (config.runConfigurations).
RunConfigurations ==
    { [id |-> "cA", model |-> "m1"], [id |-> "cB", model |-> "m2"] }

\* The judge settings config ranges over.
JudgeChoices ==
    { [useMainModelAsJudge |-> FALSE, judgeModel |-> ""],
      [useMainModelAsJudge |-> FALSE, judgeModel |-> "judge"],
      [useMainModelAsJudge |-> TRUE,  judgeModel |-> ""] }

MakeConfig(active, judge) ==
    [ activeRunConfigs |-> active, runConfigurations |-> RunConfigurations,
      useMainModelAsJudge |-> judge.useMainModelAsJudge, judgeModel |-> judge.judgeModel ]

\* The value of a run's `config` while the run does not exist.
NoConfig ==
    [ activeRunConfigs |-> <<>>, runConfigurations |-> {},
      useMainModelAsJudge |-> FALSE, judgeModel |-> "" ]

\* The configurations the model starts from: two valid run configurations without
\* a judge, or a valid one and a dangling reference ("cX" matches no run
\* configuration) with each judge setting.
ConfigChoices ==
    { MakeConfig(<<"cA", "cB">>, [useMainModelAsJudge |-> FALSE, judgeModel |-> ""]) }
    \cup { MakeConfig(<<"cA", "cX">>, j) : j \in JudgeChoices }

\* Messages a rejected generateSummary call carries.
Messages == { "boom" }

\* Scores a judge returns.
Scores == { 8 }

SourceTextOf(i) == "text" \o ToString(i)

ReferenceSummaryOf(i) == IF i = 1 THEN "ref1" ELSE ""

\* The text the generation endpoint returns for one source text and one model.
GenText(sourceText, model) == "summary(" \o sourceText \o "," \o model \o ")"

Range(f) == { f[x] : x \in DOMAIN f }

\* obj[key] = value on a JavaScript object
Put(obj, key, value) ==
    [k \in (DOMAIN obj) \cup {key} |-> IF k = key THEN value ELSE obj[k]]

----------------------------------------------------------------------------
(* Initial state: items as ingestion creates them, no run started *)

NewItem(i) ==
    [ id |-> i, sourceText |-> SourceTextOf(i), referenceSummary |-> ReferenceSummaryOf(i),
      status |-> "pending", results |-> NoEntries, evaluations |-> NoEntries ]

\* promise is the state of the promise processBatch returned.
\* calls is history: the generateSummary invocations of the run, as pairs of item
\* id and configuration id, in order.
\* outcome is history: how the generateSummary call of each task of the current
\* item ended ("resolved" or "rejected"), whether or not the run used the result.
IdleRun ==
    [ pc |-> "idle", aborted |-> FALSE, config |-> NoConfig, pendingItems |-> <<>>, idx |-> 1,
      itemResults |-> NoEntries, itemEvaluations |-> NoEntries, task |-> NoEntries,
      outcome |-> NoEntries, calls |-> <<>>, promise |-> "pending" ]

NoneDone == [run |-> 0, id |-> 0, outcome |-> NoEntries]

BatchInit ==
    /\ batchItems = [i \in 1..NumItems |-> NewItem(i)]
    /\ isGenerating = FALSE
    /\ abortControllerRef = Null
    /\ runs = [r \in RunIds |-> IdleRun]
    /\ started = 0
    /\ lastDone = NoneDone
    /\ config \in ConfigChoices

----------------------------------------------------------------------------
(* The hook's state as one record, so that the promise continuations of     *)
(* processBatch can be composed within one step.                            *)

HookState == [ items |-> batchItems, isGen |-> isGenerating,
               ref |-> abortControllerRef, runs |-> runs, done |-> lastDone ]

\* Whether config.runConfigurations.find(c => c.id === configId) finds one
HasRunConfig(cfg, configId) == \E c \in cfg.runConfigurations : c.id = configId

\* config.runConfigurations.find(c => c.id === configId), when it finds one
FindRunConfig(cfg, configId) == CHOOSE c \in cfg.runConfigurations : c.id = configId

\* Mutant of JudgeModelFor: useMainModelAsJudge is ignored.
JudgeModelConfigured(cfg, runConfig) == cfg.judgeModel

\* const judgeModel = config.useMainModelAsJudge ? runConfig.model : config.judgeModel
JudgeModelFor(cfg, runConfig) ==
    IF cfg.useMainModelAsJudge THEN runConfig.model ELSE cfg.judgeModel

\* The ids config.activeRunConfigs.map(...) goes over
ActiveIdsOf(cfg) == Range(cfg.activeRunConfigs)

ActiveIds == ActiveIdsOf(config)

AllSettled(run) == \A c \in DOMAIN run.task : run.task[c] = "settled"

\* The item the run is working on (an element of its pendingItems snapshot).
CurrentItem(run) == run.pendingItems[run.idx]

\* Mutant of MarkProcessing: the id is not compared.
MarkProcessingAll(items, id) ==
    [k \in DOMAIN items |-> [items[k] EXCEPT !.status = "processing"]]

\* setBatchItems(prev => prev.map(pi => pi.id === item.id ? {...pi, status: 'processing'} : pi))
MarkProcessing(items, id) ==
    [k \in DOMAIN items |->
        IF items[k].id = id THEN [items[k] EXCEPT !.status = "processing"] ELSE items[k]]

\* Mutant of MarkDone: status and results are written, the evaluations are
\* left for a later update.
MarkDoneResultsFirst(items, id, itemResults, itemEvaluations) ==
    [k \in DOMAIN items |->
        IF items[k].id = id
        THEN [items[k] EXCEPT !.status = "done", !.results = itemResults]
        ELSE items[k]]

\* Mutant of MarkDone: an item with a failed generation is flagged 'error'.
MarkDoneFlaggingErrors(items, id, itemResults, itemEvaluations) ==
    [k \in DOMAIN items |->
        IF items[k].id = id
        THEN [items[k] EXCEPT
                !.status = IF \E c \in DOMAIN itemEvaluations :
                                 itemEvaluations[c].note = "Generation failed"
                           THEN "error" ELSE "done",
                !.results = itemResults, !.evaluations = itemEvaluations]
        ELSE items[k]]

\* setBatchItems(prev => prev.map(pi => pi.id === item.id
\*     ? {...pi, status: 'done', results: itemResults, evaluations: itemEvaluations} : pi))
MarkDone(items, id, itemResults, itemEvaluations) ==
    [k \in DOMAIN items |->
        IF items[k].id = id
        THEN [items[k] EXCEPT !.status = "done", !.results = itemResults,
                              !.evaluations = itemEvaluations]
        ELSE items[k]]

\* The synchronous start of one per-configuration task, up to its first await.
LaunchTask(run, configId) ==
    IF run.aborted THEN "settled"
    ELSE IF ~HasRunConfig(run.config, configId) THEN "settled"
    ELSE "gen"

\* A task whose callback throws makes Promise.all reject, and nothing in
\* processBatch catches that: the promise of processBatch rejects after the
\* finally block; otherwise it resolves.
Settlement(run) ==
    IF \E c \in DOMAIN run.task : run.task[c] = "failed" THEN "rejected" ELSE "resolved"

\* finally { setIsGenerating(false); abortControllerRef.current = null; }
\* The invocation returns and its locals are gone. The record keeps, as history,
\* the signal's value, the item a cancelled run was working on and what it had
\* accumulated for it without writing it back; for a run that was not cancelled,
\* the items it had selected and the generateSummary calls it made.
Finally(st, r) ==
    LET run == st.runs[r]
        cut == run.aborted /\ run.idx <= Len(run.pendingItems) /\ run.task # NoEntries
    IN [st EXCEPT !.isGen = FALSE, !.ref = Null,
                  !.runs[r] = [IdleRun EXCEPT
                      !.pc = "finished",
                      !.promise = Settlement(run),
                      !.aborted = run.aborted,
                      !.pendingItems = IF cut THEN <<CurrentItem(run)>>
                                       ELSE IF run.aborted THEN <<>> ELSE run.pendingItems,
                      !.calls = IF run.aborted THEN <<>> ELSE run.calls,
                      !.itemResults = IF cut THEN run.itemResults ELSE NoEntries,
                      !.outcome = IF cut THEN run.outcome ELSE NoEntries]]

\* The generateSummary calls the tasks of one item make when they are launched, in
\* the order of config.activeRunConfigs.
LaunchedCalls(run, item) ==
    LET ids == SelectSeq(run.config.activeRunConfigs, LAMBDA c : LaunchTask(run, c) = "gen")
    IN [k \in DOMAIN ids |-> <<item.id, ids[k]>>]

RECURSIVE ForLoop(_, _)
\* The body of `for (const item of pendingItems)` from the top of an iteration
\* up to the point where the run waits for a network call, or to its end.
ForLoop(st, r) ==
    LET run == st.runs[r] IN
    IF run.idx > Len(run.pendingItems) THEN Finally(st, r)
    ELSE IF run.aborted THEN Finally(st, r)
    ELSE
      LET item == CurrentItem(run)
          claimed == [run EXCEPT !.itemResults = NoEntries,
                                 !.itemEvaluations = NoEntries,
                                 !.task = [c \in ActiveIdsOf(run.config) |-> LaunchTask(run, c)],
                                 !.calls = run.calls \o LaunchedCalls(run, item),
                                 !.outcome = NoEntries]
          st1 == [st EXCEPT !.items = MarkProcessing(st.items, item.id),
                            !.runs[r] = claimed]
      IN IF ~AllSettled(claimed) THEN st1
         \* Promise.all has nothing to wait for
         ELSE IF claimed.aborted THEN Finally(st1, r)
         ELSE ForLoop([st1 EXCEPT
                 !.items = MarkDone(st1.items, item.id, claimed.itemResults,
                                    claimed.itemEvaluations),
                 !.done = [run |-> r, id |-> item.id, outcome |-> claimed.outcome],
                 !.runs[r].idx = claimed.idx + 1], r)

\* Mutant of AfterPromiseAll: the promise of Promise.all never settles.
AfterPromiseAllStuck(st, r) == st

\* Mutant of AfterPromiseAll: goes on as soon as one task has settled (a race
\* instead of Promise.all).
AfterPromiseAllRace(st, r) ==
    LET run == st.runs[r] IN
    IF run.aborted THEN Finally(st, r)
    ELSE ForLoop([st EXCEPT
            !.items = MarkDone(st.items, CurrentItem(run).id, run.itemResults,
                               run.itemEvaluations),
            !.done = [run |-> r, id |-> CurrentItem(run).id, outcome |-> run.outcome],
            !.runs[r].idx = run.idx + 1], r)

\* Mutant of AfterPromiseAll: the check of the signal after Promise.all is missing.
AfterPromiseAllUnchecked(st, r) ==
    LET run == st.runs[r] IN
    IF ~AllSettled(run) THEN st
    ELSE ForLoop([st EXCEPT
            !.items = MarkDone(st.items, CurrentItem(run).id, run.itemResults,
                               run.itemEvaluations),
            !.done = [run |-> r, id |-> CurrentItem(run).id, outcome |-> run.outcome],
            !.runs[r].idx = run.idx + 1], r)

\* What follows `await Promise.all(...)` once every task of the item has settled.
AfterPromiseAll(st, r) ==
    LET run == st.runs[r] IN
    IF Settlement(run) = "rejected" THEN Finally(st, r)
    ELSE IF ~AllSettled(run) THEN st
    ELSE IF run.aborted THEN Finally(st, r)
    ELSE ForLoop([st EXCEPT
            !.items = MarkDone(st.items, CurrentItem(run).id, run.itemResults,
                               run.itemEvaluations),
            !.done = [run |-> r, id |-> CurrentItem(run).id, outcome |-> run.outcome],
            !.runs[r].idx = run.idx + 1], r)

Commit(st) ==
    /\ batchItems' = st.items
    /\ isGenerating' = st.isGen
    /\ abortControllerRef' = st.ref
    /\ runs' = st.runs
    /\ lastDone' = st.done

----------------------------------------------------------------------------
(* Operations *)

\* What processBatch reads of an item of its pendingItems snapshot.
Snapshot(item) ==
    [id |-> item.id, sourceText |-> item.sourceText,
     referenceSummary |-> item.referenceSummary]

\* Mutant of PendingItems: every item is selected.
PendingItemsUnfiltered(items) == [k \in DOMAIN items |-> Snapshot(items[k])]

\* const pendingItems = batchItems.filter(i => i.status !== 'done')
PendingItems(items) ==
    LET kept == SelectSeq(items, LAMBDA i : i.status # "done")
    IN [k \in DOMAIN kept |-> Snapshot(kept[k])]

ProcessBatch ==
    /\ started < MaxRuns
    /\ Len(batchItems) # 0
    /\ LET r == started + 1
           st0 == [HookState EXCEPT
                     !.isGen = TRUE,
                     !.ref = r,
                     !.runs[r] = [IdleRun EXCEPT !.pc = "running",
                                                 !.config = config,
                                                 !.pendingItems = PendingItems(batchItems)]]
       IN Commit(ForLoop(st0, r))
    /\ started' = started + 1
    /\ UNCHANGED config
    /\ UNCHANGED retryVars
    /\ UNCHANGED queueVars
    /\ UNCHANGED reviewVars
    /\ UNCHANGED serviceVars

StopBatch ==
    /\ abortControllerRef # Null
    /\ runs' = [runs EXCEPT ![abortControllerRef].aborted = TRUE]
    /\ abortControllerRef' = Null
    /\ isGenerating' = FALSE
    /\ UNCHANGED <<batchItems, started, lastDone, config>>
    /\ UNCHANGED retryVars
    /\ UNCHANGED queueVars
    /\ UNCHANGED reviewVars
    /\ UNCHANGED serviceVars

\* Mutant of ResetItem: the evaluations are kept.
ResetItemKeepingEvaluations(item) ==
    [item EXCEPT !.status = "pending", !.results = NoEntries]

\* setBatchItems(prev => prev.map(item => ({...item, status: 'pending', results: {}, evaluations: {}})))
ResetItem(item) ==
    [item EXCEPT !.status = "pending", !.results = NoEntries, !.evaluations = NoEntries]

ResetBatchStatus ==
    /\ batchItems' = [k \in DOMAIN batchItems |-> ResetItem(batchItems[k])]
    /\ UNCHANGED <<isGenerating, abortControllerRef, runs, started, lastDone, config>>
    /\ UNCHANGED retryVars
    /\ UNCHANGED queueVars
    /\ UNCHANGED reviewVars
    /\ UNCHANGED serviceVars

Waiting(r, c, what) ==
    /\ runs[r].pc = "running"
    /\ c \in DOMAIN runs[r].task
    /\ runs[r].task[c] = what

\* Mutant of AfterGeneration: the check of the signal after generateSummary is missing.
AfterGenerationUnchecked(run, configId, result) ==
    [run EXCEPT !.itemResults = Put(@, configId, result),
                !.task[configId] = "settled"]

\* Mutant of AfterGeneration: the signal is checked neither after generateSummary
\* nor before evaluateSummary.
AfterGenerationIgnoringSignal(run, configId, result) ==
    LET stored == [run EXCEPT !.itemResults = Put(@, configId, result)]
    IN IF JudgeModelFor(run.config, FindRunConfig(run.config, configId)) # ""
       THEN [stored EXCEPT !.task[configId] = "eval"]
       ELSE [stored EXCEPT !.task[configId] = "settled"]

\* The judge call is made unless no judge model is set (lines 74-99).
AfterGeneration(run, configId, result) ==
    IF run.aborted THEN [run EXCEPT !.task[configId] = "settled"]
    ELSE LET stored == [run EXCEPT !.itemResults = Put(@, configId, result)]
         IN IF JudgeModelFor(run.config, FindRunConfig(run.config, configId)) # ""
            THEN [stored EXCEPT !.task[configId] = "eval"]
            ELSE [stored EXCEPT !.task[configId] = "settled"]

\* History: note how the generateSummary call of task configId ended.
Noted(run, configId, how) == [run EXCEPT !.outcome = Put(@, configId, how)]

\* await generateSummary(...) returns its text
GenerateResolves(r, c) ==
    /\ Waiting(r, c, "gen")
    /\ LET run == runs[r]
           result == GenText(CurrentItem(run).sourceText, FindRunConfig(run.config, c).model)
           st1 == [HookState EXCEPT
                     !.runs[r] = Noted(AfterGeneration(run, c, result), c, "resolved")]
       IN Commit(AfterPromiseAll(st1, r))
    /\ UNCHANGED <<started, config>>
    /\ UNCHANGED retryVars
    /\ UNCHANGED queueVars
    /\ UNCHANGED reviewVars
    /\ UNCHANGED serviceVars

\* Mutant of ErrorMarker: the bare message.
ErrorMarkerBare(message) == message

ErrorMarker(message) == "Error: " \o message

GenerationFailed == [score |-> 0, note |-> "Generation failed", isGroundTruth |-> FALSE]

EvaluationFailed == [score |-> 0, note |-> "Evaluation failed", isGroundTruth |-> FALSE]

\* Mutant of OnGenerationError: the maps are replaced instead of extended.
OnGenerationErrorReplacing(run, configId, message) ==
    [run EXCEPT !.itemResults = Put(NoEntries, configId, ErrorMarker(message)),
                !.itemEvaluations = Put(NoEntries, configId, GenerationFailed),
                !.task[configId] = "settled"]

\* Mutant of OnGenerationError: the error is not caught.
OnGenerationErrorUncaught(run, configId, message) ==
    [run EXCEPT !.task[configId] = "failed"]

\* Mutant of OnGenerationError: the judge is called for the error marker.
OnGenerationErrorJudged(run, configId, message) ==
    [run EXCEPT !.itemResults = Put(@, configId, ErrorMarker(message)),
                !.task[configId] = "eval"]

\* catch (e) { itemResults[configId] = `Error: ${e.message}`; itemEvaluations[configId] = ... }
OnGenerationError(run, configId, message) ==
    [run EXCEPT !.itemResults = Put(@, configId, ErrorMarker(message)),
                !.itemEvaluations = Put(@, configId, GenerationFailed),
                !.task[configId] = "settled"]

\* await generateSummary(...) throws
GenerateRejects(r, c) ==
    /\ Waiting(r, c, "gen")
    /\ \E m \in Messages :
        LET st1 == [HookState EXCEPT
                      !.runs[r] = Noted(OnGenerationError(runs[r], c, m), c, "rejected")]
        IN Commit(AfterPromiseAll(st1, r))
    /\ UNCHANGED <<started, config>>
    /\ UNCHANGED retryVars
    /\ UNCHANGED queueVars
    /\ UNCHANGED reviewVars
    /\ UNCHANGED serviceVars

\* itemEvaluations[configId] = { score, note, isGroundTruth: false, ..., comparedToReference }
OnEvaluation(run, configId, evaluation) ==
    [run EXCEPT !.itemEvaluations =
                    Put(@, configId, [score |-> evaluation.score, note |-> evaluation.note,
                                      isGroundTruth |-> FALSE,
                                      comparedToReference |-> evaluation.comparedToReference]),
                !.task[configId] = "settled"]

\* await evaluateSummary(...) returns an evaluation
EvaluateResolves(r, c) ==
    /\ Waiting(r, c, "eval")
    /\ \E s \in Scores :
        LET evaluation == [score |-> s, note |-> "ok",
                           comparedToReference |-> CurrentItem(runs[r]).referenceSummary # ""]
            st1 == [HookState EXCEPT !.runs[r] = OnEvaluation(runs[r], c, evaluation)]
        IN Commit(AfterPromiseAll(st1, r))
    /\ UNCHANGED <<started, config>>
    /\ UNCHANGED retryVars
    /\ UNCHANGED queueVars
    /\ UNCHANGED reviewVars
    /\ UNCHANGED serviceVars

\* catch (evalErr) { itemEvaluations[configId] = { score: 0, note: "Evaluation failed", ... } }
OnEvaluationError(run, configId) ==
    [run EXCEPT !.itemEvaluations = Put(@, configId, EvaluationFailed),
                !.task[configId] = "settled"]

\* await evaluateSummary(...) throws
EvaluateRejects(r, c) ==
    /\ Waiting(r, c, "eval")
    /\ LET st1 == [HookState EXCEPT !.runs[r] = OnEvaluationError(runs[r], c)]
       IN Commit(AfterPromiseAll(st1, r))
    /\ UNCHANGED <<started, config>>
    /\ UNCHANGED retryVars
    /\ UNCHANGED queueVars
    /\ UNCHANGED reviewVars
    /\ UNCHANGED serviceVars


----------------------------------------------------------------------------
(* retryWithBackoff *)

\* Largest maxRetries the model passes to retryWithBackoff directly.
MaxMaxRetries == 3

\* The baseDelay values the model passes directly.
BaseDelays == { 100, 1000 }

\* What fn may throw when called directly: Error objects and a bare string.
ThrownValues ==
    { [isError |-> TRUE, text |-> "Fail 1"], [isError |-> TRUE, text |-> "Fail 2"],
      [isError |-> FALSE, text |-> "oops"] }

\* lastError = error instanceof Error ? error : new Error(String(error))
AsError(error) ==
    IF error.isError THEN error ELSE [isError |-> TRUE, text |-> error.text]

RECURSIVE Pow2(_)
\* Math.pow(2, n)
Pow2(n) == IF n = 0 THEN 1 ELSE 2 * Pow2(n - 1)

\* Mutant of BackoffDelay: a linear backoff.
BackoffDelayLinear(base, n) == base * (n + 1)

\* const delay = baseDelay * Math.pow(2, attempt)
BackoffDelay(base, n) == base * Pow2(n)

\* Mutant of CatchBlock: gives up one attempt early.
CatchBlockOffByOne(error, n, retries, base) ==
    [ lastError |-> AsError(error),
      giveUp |-> (n + 1 >= retries),
      delay |-> BackoffDelay(base, n) ]

\* Mutant of CatchBlock: does not retry an authentication or not-found failure.
CatchBlockTransientOnly(error, n, retries, base) ==
    [ lastError |-> AsError(error),
      giveUp |-> \/ n = retries
                 \/ error.text = "Authentication failed: Invalid API key"
                 \/ error.text = "Model \"m1\" not found or endpoint incorrect",
      delay |-> BackoffDelay(base, n) ]

\* The catch block: whether it breaks out of the loop, and the delay it waits otherwise.
CatchBlock(error, n, retries, base) ==
    [ lastError |-> AsError(error),
      giveUp |-> (n = retries),
      delay |-> BackoffDelay(base, n) ]

\* No fetch has ended yet.
NoFetch == [kind |-> "none", status |-> 0, body |-> "", content |-> "", finish |-> ""]

RetryIdle ==
    /\ caller = "none"
    /\ rpc = "idle"
    /\ maxRetries = 0
    /\ baseDelay = 0
    /\ attempt = 0
    /\ lastError = Null
    /\ settled = Null
    /\ fnCalls = 0
    /\ delays = <<>>
    /\ thrown = <<>>
    /\ lastFetch = NoFetch

\* The call: the loop is entered with attempt = 0 and fn is invoked at once.
Enter(who, retries, base) ==
    /\ rpc = "idle"
    /\ caller' = who
    /\ maxRetries' = retries
    /\ baseDelay' = base
    /\ attempt' = 0
    /\ IF 0 <= retries
       THEN rpc' = "calling" /\ fnCalls' = fnCalls + 1 /\ settled' = settled
       ELSE rpc' = "rejected" /\ fnCalls' = fnCalls
            /\ settled' = [isError |-> TRUE, text |-> "Request failed after retries"]
    /\ UNCHANGED <<lastError, delays, thrown, lastFetch>>
    /\ UNCHANGED batchVars
    /\ UNCHANGED queueVars
    /\ UNCHANGED reviewVars
    /\ UNCHANGED serviceVars

RetryWithBackoff ==
    \E retries \in 0..MaxMaxRetries, base \in BaseDelays : Enter("direct", retries, base)

\* Mutant of Returns: fn is invoked once more after it has succeeded.
ReturnsAndCallsAgain(value) ==
    /\ rpc = "calling"
    /\ rpc' = "resolved"
    /\ settled' = value
    /\ fnCalls' = fnCalls + 1
    /\ UNCHANGED <<caller, maxRetries, baseDelay, attempt, lastError, delays, thrown>>
    /\ UNCHANGED batchVars
    /\ UNCHANGED queueVars
    /\ UNCHANGED reviewVars
    /\ UNCHANGED serviceVars

\* return await fn()
Returns(value) ==
    /\ rpc = "calling"
    /\ rpc' = "resolved"
    /\ settled' = value
    /\ UNCHANGED <<caller, maxRetries, baseDelay, attempt, lastError, fnCalls, delays, thrown>>
    /\ UNCHANGED batchVars
    /\ UNCHANGED queueVars
    /\ UNCHANGED reviewVars
    /\ UNCHANGED serviceVars

\* fn() rejects with error: the catch block, then `throw lastError` or the timer.
Throws(error) ==
    /\ rpc = "calling"
    /\ LET c == CatchBlock(error, attempt, maxRetries, baseDelay) IN
        /\ lastError' = c.lastError
        /\ thrown' = Append(thrown, error)
        /\ IF c.giveUp
           THEN rpc' = "rejected" /\ settled' = c.lastError /\ delays' = delays
           ELSE rpc' = "sleeping" /\ settled' = settled /\ delays' = Append(delays, c.delay)
    /\ UNCHANGED <<caller, maxRetries, baseDelay, attempt, fnCalls>>
    /\ UNCHANGED batchVars
    /\ UNCHANGED queueVars
    /\ UNCHANGED reviewVars
    /\ UNCHANGED serviceVars

FnResolves ==
    /\ caller = "direct"
    /\ Returns("success")
    /\ UNCHANGED lastFetch

FnRejects ==
    /\ caller = "direct"
    /\ \E e \in ThrownValues : Throws(e)
    /\ UNCHANGED lastFetch

\* The setTimeout of the backoff fires: attempt++, the loop test, the next fn().
TimerFires ==
    /\ rpc = "sleeping"
    /\ attempt' = attempt + 1
    /\ IF attempt + 1 <= maxRetries
       THEN rpc' = "calling" /\ fnCalls' = fnCalls + 1 /\ settled' = settled
       ELSE rpc' = "rejected" /\ fnCalls' = fnCalls /\ settled' = lastError
    /\ UNCHANGED <<caller, maxRetries, baseDelay, lastError, delays, thrown, lastFetch>>
    /\ UNCHANGED batchVars
    /\ UNCHANGED queueVars
    /\ UNCHANGED reviewVars
    /\ UNCHANGED serviceVars

----------------------------------------------------------------------------
(* generateGenericOpenAIRequest: one HTTP request wrapped in retryWithBackoff *)

\* Mutant of InvokerRetryPolicy: one more retry.
InvokerRetryPolicyFour == [maxRetries |-> 4, baseDelay |-> 1000]

\* retryWithBackoff(async () => {...}, 3, 1000)
InvokerRetryPolicy == [maxRetries |-> 3, baseDelay |-> 1000]

RequestModel == "m1"

RequestEndpoint == "http://host/v1"

\* Status codes of the responses the endpoint gives.
Statuses == { 200, 400, 401, 404, 429, 500, 503 }

\* What one fetch can end in: the fetch itself failing (a TypeError whose message
\* names fetch), or a response with a status, a body text, the content of the
\* first choice ("" when absent) and its finish_reason.
FetchOutcomes ==
    { [kind |-> "fetchFails", status |-> 0, body |-> "", content |-> "", finish |-> ""] }
    \cup [ kind : {"response"}, status : Statuses \ {200}, body : {"denied"},
           content : {""}, finish : {""} ]
    \cup [ kind : {"response"}, status : {200}, body : {"{}"},
           content : {"", "Hello"}, finish : {"stop", "content_filter"} ]

\* response.ok
ResponseOk(status) == 200 <= status /\ status <= 299

\* The message thrown for a response that is not ok (lines 503-513).
StatusError(status, errText, model) ==
    IF status = 401 THEN "Authentication failed: Invalid API key"
    ELSE IF status = 429 THEN "Rate limit exceeded. Please try again later."
    ELSE IF status = 404 THEN "Model \"" \o model \o "\" not found or endpoint incorrect"
    ELSE IF status >= 500
         THEN "Server error (" \o ToString(status)
              \o "). The API may be temporarily unavailable."
    ELSE "API Error (" \o ToString(status) \o "): " \o errText

\* Mutant of NoContentError: the content filter is not told apart.
NoContentErrorUndistinguished(body, finish) ==
    "No content in API response. Response: " \o body

\* The message thrown when a 2xx response carries no content (lines 519-527).
NoContentError(body, finish) ==
    IF finish = "content_filter"
    THEN "Azure OpenAI Content Filter triggered. Please modify your prompt."
    ELSE "No content in API response. Response: " \o body

\* The message of the error a fetch failure is rethrown as (lines 533-535).
NetworkError(endpoint) ==
    "Network error: Unable to connect to " \o endpoint
    \o ". Please check your connection and endpoint URL."

\* The request function passed to retryWithBackoff, applied to what its fetch ends in:
\* ok with the returned content, or not ok with the Error it throws.
Request(o) ==
    IF o.kind = "fetchFails"
    THEN [ok |-> FALSE, error |-> [isError |-> TRUE, text |-> NetworkError(RequestEndpoint)]]
    ELSE IF ~ResponseOk(o.status)
    THEN [ok |-> FALSE,
          error |-> [isError |-> TRUE, text |-> StatusError(o.status, o.body, RequestModel)]]
    ELSE IF o.content = ""
    THEN [ok |-> FALSE, error |-> [isError |-> TRUE, text |-> NoContentError(o.body, o.finish)]]
    ELSE [ok |-> TRUE, content |-> o.content]

GenerateGenericOpenAIRequest ==
    Enter("invoker", InvokerRetryPolicy.maxRetries, InvokerRetryPolicy.baseDelay)

RequestSucceeds ==
    /\ caller = "invoker"
    /\ \E o \in FetchOutcomes :
          Request(o).ok /\ Returns(Request(o).content) /\ lastFetch' = o

RequestFails ==
    /\ caller = "invoker"
    /\ \E o \in FetchOutcomes :
          ~Request(o).ok /\ Throws(Request(o).error) /\ lastFetch' = o

----------------------------------------------------------------------------
(* RequestQueue *)

\* Number of add() calls the model makes.
NumCalls == 3

\* Largest capacity the model constructs a queue with.
MaxConcurrent == 2

CallIds == 1..NumCalls

\* new RequestQueue(capacity): running = 0, nothing submitted.
QueueIdle(capacity) ==
    /\ maxConcurrent = capacity
    /\ running = 0
    /\ call = [f \in CallIds |-> "none"]
    /\ timers = <<>>
    /\ addOrder = <<>>
    /\ startOrder = <<>>
    /\ releases = [f \in CallIds |-> 0]

QueueInit == \E capacity \in 1..MaxConcurrent : QueueIdle(capacity)

\* constructor(private maxConcurrent = 3)
QueueQuiet == QueueIdle(3)

\* Mutant of MustWait: the comparison is strict.
MustWaitStrict(n, capacity) == n > capacity

\* while (this.running >= this.maxConcurrent)
MustWait(n, capacity) == n >= capacity

\* getRunningCount()
GetRunningCount == running

\* isFull()
IsFull == running >= maxConcurrent

\* Mutant of Release: the slot is given back only when fn resolved.
ReleaseOnSuccess(n, outcome) == IF outcome = "resolved" THEN n - 1 ELSE n

\* finally { this.running-- }
Release(n, outcome) == n - 1

\* add() from its loop test on: either it arms a 100 ms timer and waits, or it
\* takes a slot (this.running++) and invokes fn.
Admit(f, queue) ==
    IF MustWait(running, maxConcurrent)
    THEN /\ call' = [call EXCEPT ![f] = "waiting"]
         /\ timers' = Append(queue, f)
         /\ UNCHANGED <<running, startOrder>>
    ELSE /\ call' = [call EXCEPT ![f] = "running"]
         /\ running' = running + 1
         /\ startOrder' = Append(startOrder, f)
         /\ timers' = queue

\* queue.add(fn)
Add(f) ==
    /\ call[f] = "none"
    /\ addOrder' = Append(addOrder, f)
    /\ Admit(f, timers)
    /\ UNCHANGED <<maxConcurrent, releases>>
    /\ UNCHANGED <<batchVars, retryVars, reviewVars, serviceVars>>

\* The timer of the waiting call that armed its timer first fires; the call
\* tests the loop condition again.
PollTimerFires ==
    /\ timers # <<>>
    /\ Admit(Head(timers), Tail(timers))
    /\ UNCHANGED <<maxConcurrent, addOrder, releases>>
    /\ UNCHANGED <<batchVars, retryVars, reviewVars, serviceVars>>

\* fn() settles: the finally block, then the promise of add() settles alike.
Settle(f, outcome) ==
    /\ call[f] = "running"
    /\ call' = [call EXCEPT ![f] = outcome]
    /\ running' = Release(running, outcome)
    /\ releases' = [releases EXCEPT ![f] = @ + 1]
    /\ UNCHANGED <<maxConcurrent, timers, addOrder, startOrder>>
    /\ UNCHANGED <<batchVars, retryVars, reviewVars, serviceVars>>

\* The history without what it holds about caller f's earlier add() call.
Forget(order, f) == SelectSeq(order, LAMBDA g : g # f)

\* A caller whose add() call has settled calls queue.add(fn) again. The history
\* variables keep the latest call of each caller only.
AddAgain(f) ==
    /\ call[f] \in {"resolved", "rejected"}
    /\ addOrder' = Append(Forget(addOrder, f), f)
    /\ releases' = [releases EXCEPT ![f] = 0]
    /\ IF MustWait(running, maxConcurrent)
       THEN /\ call' = [call EXCEPT ![f] = "waiting"]
            /\ timers' = Append(timers, f)
            /\ running' = running
            /\ startOrder' = Forget(startOrder, f)
       ELSE /\ call' = [call EXCEPT ![f] = "running"]
            /\ running' = running + 1
            /\ startOrder' = Append(Forget(startOrder, f), f)
            /\ timers' = timers
    /\ UNCHANGED maxConcurrent
    /\ UNCHANGED <<batchVars, retryVars, reviewVars, serviceVars>>

TaskResolves(f) == Settle(f, "resolved")

TaskRejects(f) == Settle(f, "rejected")

----------------------------------------------------------------------------
(* The run configuration panel and the result table: toggleActive and the    *)
(* manual evaluation updates (handleUpdateEvaluation)                        *)

\* Number of processBatch invocations in the behaviours with manual updates.
ReviewRuns == 1

\* Number of manual evaluation updates the model makes.
MaxEdits == 2

\* Number of toggleActive calls the model makes.
MaxToggles == 1

\* No manual update and no toggle has happened.
ReviewIdle == edits = 0 /\ toggles = 0

\* Slider positions the model moves an evaluator score to.
SliderValues == { 5 }

\* toggleActive(id): the id is removed from activeRunConfigs, or appended to it.
Toggled(active, id) ==
    IF id \in Range(active)
    THEN SelectSeq(active, LAMBDA cid : cid # id)
    ELSE Append(active, id)

\* The panel shows one toggle per entry of config.runConfigurations.
ToggleActive ==
    /\ toggles < MaxToggles
    /\ \E conf \in config.runConfigurations :
          config' = [config EXCEPT !.activeRunConfigs = Toggled(@, conf.id)]
    /\ toggles' = toggles + 1
    /\ UNCHANGED <<batchItems, isGenerating, abortControllerRef, runs, started, lastDone>>
    /\ UNCHANGED retryVars
    /\ UNCHANGED queueVars
    /\ UNCHANGED edits
    /\ UNCHANGED serviceVars

\* const currentEval = item.evaluations[model] || { score: 0, note: '', isGroundTruth: false }
DefaultEvaluation == [score |-> 0, note |-> "", isGroundTruth |-> FALSE]

EvaluationOf(item, model) ==
    IF model \in DOMAIN item.evaluations THEN item.evaluations[model] ELSE DefaultEvaluation

\* Mutant of UpdatedEvaluations: the other evaluations keep their mark.
UpdatedEvaluationsKeepingMarks(item, model, field, value) ==
    LET currentEval == EvaluationOf(item, model)
    IN Put(item.evaluations, model, IF field = "isGroundTruth"
                                    THEN [currentEval EXCEPT !.isGroundTruth = value]
                                    ELSE [currentEval EXCEPT !.score = value])

\* The evaluations of one item after handleUpdateEvaluation(item.id, model, field, value).
UpdatedEvaluations(item, model, field, value) ==
    LET unmarked == IF field = "isGroundTruth" /\ value = TRUE
                    THEN [k \in DOMAIN item.evaluations |->
                             [item.evaluations[k] EXCEPT !.isGroundTruth = FALSE]]
                    ELSE item.evaluations
        currentEval == EvaluationOf(item, model)
    IN Put(unmarked, model, IF field = "isGroundTruth"
                            THEN [currentEval EXCEPT !.isGroundTruth = value]
                            ELSE [currentEval EXCEPT !.score = value])

\* setBatchItems(prev => prev.map(item => item.id !== itemId ? item : {...item, evaluations}))
HandleUpdateEvaluation(itemId, model, field, value) ==
    batchItems' = [k \in DOMAIN batchItems |->
                     IF batchItems[k].id # itemId THEN batchItems[k]
                     ELSE [batchItems[k] EXCEPT
                             !.evaluations = UpdatedEvaluations(batchItems[k], model, field, value)]]

\* The columns of the result table: the run configurations that are active.
SortedConfigs == { c \in config.runConfigurations : c.id \in ActiveIds }

\* The controls of an expanded row: the ground-truth star and the score slider
\* of one item and one column.
RowEdit ==
    /\ edits < MaxEdits
    /\ edits' = edits + 1
    /\ \E k \in DOMAIN batchItems, conf \in SortedConfigs :
          \/ HandleUpdateEvaluation(batchItems[k].id, conf.id, "isGroundTruth",
                                    ~EvaluationOf(batchItems[k], conf.id).isGroundTruth)
          \/ \E v \in SliderValues :
                HandleUpdateEvaluation(batchItems[k].id, conf.id, "score", v)
    /\ UNCHANGED <<isGenerating, abortControllerRef, runs, started, lastDone, config>>
    /\ UNCHANGED retryVars
    /\ UNCHANGED queueVars
    /\ UNCHANGED toggles
    /\ UNCHANGED serviceVars

\* processBatch, invoked at most ReviewRuns times.
ProcessBatchOnce == started < ReviewRuns /\ ProcessBatch

----------------------------------------------------------------------------
(* evaluateSummary and generateSummary: one call of either, with the request *)
(* it makes through generateGenericOpenAIRequest                             *)

\* An optional value: undefined, or the value given.
Undefined == <<>>

Some(x) == <<x>>

\* The characters String.prototype.trim removes that occur in the model's texts.
WhiteSpace == { " ", "\n", "\t" }

RECURSIVE TrimStart(_)
TrimStart(s) ==
    IF Len(s) > 0 /\ SubSeq(s, 1, 1) \in WhiteSpace
    THEN TrimStart(SubSeq(s, 2, Len(s)))
    ELSE s

RECURSIVE TrimEnd(_)
TrimEnd(s) ==
    IF Len(s) > 0 /\ SubSeq(s, Len(s), Len(s)) \in WhiteSpace
    THEN TrimEnd(SubSeq(s, 1, Len(s) - 1))
    ELSE s

\* s.trim()
Trim(s) == TrimEnd(TrimStart(s))

\* Math.min(10, Math.max(0, x)): the ends of the score scale.
MinScore == 0
MaxScore == 10

\* text.length > 1000000
MaxInputLength == 1000000

\* What the promise of the call settles with: a returned value or a thrown error.
Pending == [kind |-> "pending"]

Fulfilled(value) == [kind |-> "value", value |-> value]

Raised(message) == [kind |-> "raised", error |-> [isError |-> TRUE, text |-> message]]

\* No call of evaluateSummary or generateSummary has been made.
ServiceIdle ==
    /\ service = [op |-> "none", pc |-> "idle"]
    /\ requests = 0
    /\ returned = Pending
    /\ prompts = <<>>

\* The names of the judge criteria.
CriterionNames == { "ACCURACY", "CLARITY" }

\* The arguments evaluateSummary is called with.
EvaluateArguments ==
    [ originalText : { "", " \n", " Original text. " },
      generatedSummary : { "", "\t ", "Summary." },
      criteria : { <<>>, <<"ACCURACY", "CLARITY">> },
      model : { "", " ", "judge" },
      endpoint : { "", "http://localhost:1234" },
      referenceSummary : { Undefined, Some(""), Some(" \n"), Some("Gold summary.") } ]

\* A value read from the parsed response: typeof and, for a number, the number.
JsUndefined == [type |-> "undefined", n |-> 0]

JsString == [type |-> "string", n |-> 0]

JsNumber(n) == [type |-> "number", n |-> n]

\* result.score as the judge can send it.
ScoreValues == { JsUndefined, JsString, JsNumber(-3), JsNumber(7), JsNumber(15) }

\* result.criteriaScores as the judge can send it: absent, or an object whose
\* entries are numbers or not (JsUndefined: the key is absent).
CriteriaValues ==
    { [type |-> "undefined", entries |-> [k \in CriterionNames |-> JsUndefined]] }
    \cup [ type : {"object"},
           entries : [CriterionNames -> { JsUndefined, JsString, JsNumber(-1),
                                          JsNumber(6), JsNumber(11) }] ]

\* JSON.parse gave null.
NullValue ==
    [ isNull |-> TRUE, score |-> JsUndefined, note |-> "",
      criteriaScores |-> [type |-> "undefined",
                          entries |-> [k \in CriterionNames |-> JsUndefined]] ]

\* The values JSON.parse can give.
ParsedValues ==
    { NullValue }
    \cup [ isNull : {FALSE}, score : ScoreValues, note : { "", "Good." },
           criteriaScores : CriteriaValues ]

\* The responseText of the judge: a JSON document or not, inside a ```json fence or not.
JudgeResponses ==
    [ fenced : BOOLEAN, valid : {TRUE}, value : ParsedValues ]
    \cup [ fenced : BOOLEAN, valid : {FALSE}, value : {NullValue} ]

\* The errors generateGenericOpenAIRequest rejects with.
RequestErrors ==
    { [isError |-> TRUE, text |-> "Rate limit exceeded. Please try again later."] }

\* Mutant of EvaluateInputsFailure: the criteria are not checked.
EvaluateInputsFailureNoCriteria(a) ==
    IF Trim(a.originalText) = "" \/ Trim(a.generatedSummary) = ""
    THEN Some("Evaluation failed: Missing original text or generated summary")
    ELSE IF Trim(a.model) = "" \/ Trim(a.endpoint) = ""
    THEN Some("Evaluation failed: Judge model or endpoint not configured")
    ELSE Undefined

\* The three checks at the head of evaluateSummary (lines 572-594): the note of the
\* evaluation returned at once, or undefined when the arguments pass.
EvaluateInputsFailure(a) ==
    IF Trim(a.originalText) = "" \/ Trim(a.generatedSummary) = ""
    THEN Some("Evaluation failed: Missing original text or generated summary")
    ELSE IF Trim(a.model) = "" \/ Trim(a.endpoint) = ""
    THEN Some("Evaluation failed: Judge model or endpoint not configured")
    ELSE IF Len(a.criteria) = 0
    THEN Some("Evaluation failed: No criteria defined")
    ELSE Undefined

\* Mutant of HasReference: the reference is not trimmed.
HasReferenceUntrimmed(referenceSummary) ==
    /\ referenceSummary # Undefined
    /\ Len(referenceSummary[1]) > 0

\* const hasReference = !!(referenceSummary && referenceSummary.trim().length > 0)
HasReference(referenceSummary) ==
    /\ referenceSummary # Undefined
    /\ Len(referenceSummary[1]) > 0
    /\ Len(Trim(referenceSummary[1])) > 0

\* { score: 0, note, comparedToReference }
ZeroEvaluation(note, comparedToReference) ==
    [ score |-> 0, note |-> note, criteriaScores |-> Undefined,
      comparedToReference |-> comparedToReference ]

\* Mutant of Clamp: no upper end.
ClampLowerOnly(x) == IF x < MinScore THEN MinScore ELSE x

Clamp(x) ==
    LET lower == IF x < MinScore THEN MinScore ELSE x
    IN IF lower > MaxScore THEN MaxScore ELSE lower

\* responseText.replace(/```json\n?|\n?```/g, '').trim(), then JSON.parse
JsonParse(response) ==
    IF response.valid
    THEN [ok |-> TRUE, value |-> response.value, message |-> ""]
    ELSE [ok |-> FALSE, value |-> NullValue,
          message |-> "Unexpected token N in JSON at position 0"]

\* for (const [key, value] of Object.entries(result.criteriaScores))
\*     if (typeof value === 'number') criteriaScores[key] = clamp(value)
ClampedEntries(entries) ==
    [ k \in { key \in DOMAIN entries : entries[key].type = "number" } |->
        Clamp(entries[k].n) ]

\* The inner try block and its catch (lines 665-692).
ParseEvaluation(response, hasReference) ==
    LET parsed == JsonParse(response)
        result == parsed.value
    IN  IF ~parsed.ok
        THEN ZeroEvaluation("Error parsing evaluator response: " \o parsed.message,
                            hasReference)
        ELSE IF result.isNull
        THEN ZeroEvaluation("Error parsing evaluator response: "
                            \o "Cannot read properties of null (reading 'score')",
                            hasReference)
        ELSE [ score |-> IF result.score.type = "number" THEN Clamp(result.score.n) ELSE 0,
               note |-> IF result.note # "" THEN result.note ELSE "No explanation provided.",
               criteriaScores |-> IF result.criteriaScores.type = "object"
                                  THEN Some(ClampedEntries(result.criteriaScores.entries))
                                  ELSE Undefined,
               comparedToReference |-> hasReference ]

\* Mutant of OnJudgeError: no outer catch, the error leaves evaluateSummary.
OnJudgeErrorUncaught(error, hasReference) == [kind |-> "raised", error |-> error]

\* The outer catch (lines 694-700).
OnJudgeError(error, hasReference) ==
    Fulfilled(ZeroEvaluation("Evaluation failed: "
                             \o (IF error.isError THEN error.text ELSE "Unknown error"),
                             hasReference))

\* evaluateSummary(...) up to its await: an evaluation returned at once, or the
\* request to the judge.
EvaluateSummary ==
    /\ service.pc = "idle"
    /\ \E a \in EvaluateArguments :
          LET failure == EvaluateInputsFailure(a) IN
          IF failure # Undefined
          THEN /\ service' = [op |-> "evaluateSummary", pc |-> "done", args |-> a]
               /\ returned' = Fulfilled(ZeroEvaluation(failure[1], FALSE))
               /\ requests' = requests
          ELSE /\ service' = [op |-> "evaluateSummary", pc |-> "awaiting", args |-> a]
               /\ returned' = returned
               /\ requests' = requests + 1
    /\ UNCHANGED prompts
    /\ UNCHANGED <<batchVars, retryVars, queueVars, reviewVars>>

\* The request to the judge resolves with responseText.
JudgeResolves ==
    /\ service.op = "evaluateSummary"
    /\ service.pc = "awaiting"
    /\ \E response \in JudgeResponses :
          /\ service' = [op |-> "evaluateSummary", pc |-> "done", args |-> service.args,
                         response |-> response]
          /\ returned' = Fulfilled(ParseEvaluation(response,
                                                   HasReference(service.args.referenceSummary)))
    /\ UNCHANGED <<requests, prompts>>
    /\ UNCHANGED <<batchVars, retryVars, queueVars, reviewVars>>

\* The request to the judge rejects.
JudgeRejects ==
    /\ service.op = "evaluateSummary"
    /\ service.pc = "awaiting"
    /\ \E error \in RequestErrors :
          /\ service' = [op |-> "evaluateSummary", pc |-> "done", args |-> service.args,
                         error |-> error]
          /\ returned' = OnJudgeError(error, HasReference(service.args.referenceSummary))
    /\ UNCHANGED <<requests, prompts>>
    /\ UNCHANGED <<batchVars, retryVars, queueVars, reviewVars>>

\* The part of AppConfig generateSummary reads.
SummaryConfigs ==
    [ provider : { "local", "cloud", "gemini" },
      cloudEndpoint : { "", " ", "https://cloud/v1" },
      cloudApiKey : { "", " ", "key" },
      localEndpoint : { "", "http://localhost:1234/v1" },
      activeModels : { <<>>, <<"m1">> } ]

\* The arguments generateSummary is called with (modelOverride "" when not given).
SummaryArguments ==
    [ text : { "", " \n", " Original text. " },
      config : SummaryConfigs,
      modelOverride : { "", "m2" } ]

\* Mutant of ValidateSummaryInputs: the API key is not checked.
ValidateSummaryInputsNoKey(text, cfg) ==
    IF Trim(text) = ""
    THEN [valid |-> FALSE, error |-> "Input text is required and cannot be empty"]
    ELSE IF Len(text) > MaxInputLength
    THEN [valid |-> FALSE, error |-> "Input text is too long (max 1M characters)"]
    ELSE IF cfg.provider = "cloud" /\ Trim(cfg.cloudEndpoint) = ""
    THEN [valid |-> FALSE, error |-> "Cloud endpoint is required for cloud provider"]
    ELSE IF cfg.provider = "local" /\ Trim(cfg.localEndpoint) = ""
    THEN [valid |-> FALSE, error |-> "Local endpoint is required for local provider"]
    ELSE [valid |-> TRUE, error |-> ""]

\* validateSummaryInputs(text, config)
ValidateSummaryInputs(text, cfg) ==
    IF Trim(text) = ""
    THEN [valid |-> FALSE, error |-> "Input text is required and cannot be empty"]
    ELSE IF Len(text) > MaxInputLength
    THEN [valid |-> FALSE, error |-> "Input text is too long (max 1M characters)"]
    ELSE IF cfg.provider = "cloud" /\ Trim(cfg.cloudEndpoint) = ""
    THEN [valid |-> FALSE, error |-> "Cloud endpoint is required for cloud provider"]
    ELSE IF cfg.provider = "cloud" /\ Trim(cfg.cloudApiKey) = ""
    THEN [valid |-> FALSE, error |-> "API key is required for cloud provider"]
    ELSE IF cfg.provider = "local" /\ Trim(cfg.localEndpoint) = ""
    THEN [valid |-> FALSE, error |-> "Local endpoint is required for local provider"]
    ELSE [valid |-> TRUE, error |-> ""]

\* const baseModelToUse = modelOverride || config.activeModels[0]
ModelToUse(cfg, modelOverride) ==
    IF modelOverride # "" THEN modelOverride
    ELSE IF Len(cfg.activeModels) = 0 THEN ""
    ELSE cfg.activeModels[1]

\* generateSummary(text, config, modelOverride) up to its return: the error it
\* throws, or the request it makes.
GenerateSummary ==
    /\ service.pc = "idle"
    /\ \E a \in SummaryArguments :
          LET validation == ValidateSummaryInputs(a.text, a.config) IN
          IF ~validation.valid
          THEN /\ service' = [op |-> "generateSummary", pc |-> "done", args |-> a]
               /\ returned' = Raised(validation.error)
               /\ requests' = requests
          ELSE IF ModelToUse(a.config, a.modelOverride) = ""
          THEN /\ service' = [op |-> "generateSummary", pc |-> "done", args |-> a]
               /\ returned' = Raised("No model selected. Please select at least one model.")
               /\ requests' = requests
          ELSE /\ service' = [op |-> "generateSummary", pc |-> "awaiting", args |-> a]
               /\ returned' = returned
               /\ requests' = requests + 1
    /\ UNCHANGED prompts
    /\ UNCHANGED <<batchVars, retryVars, queueVars, reviewVars>>

\* The request resolves: generateSummary returns its content.
SummaryResolves ==
    /\ service.op = "generateSummary"
    /\ service.pc = "awaiting"
    /\ service' = [service EXCEPT !.pc = "done"]
    /\ returned' = Fulfilled("Hello")
    /\ UNCHANGED <<requests, prompts>>
    /\ UNCHANGED <<batchVars, retryVars, queueVars, reviewVars>>

\* The request rejects: generateSummary rejects with the same error.
SummaryRejects ==
    /\ service.op = "generateSummary"
    /\ service.pc = "awaiting"
    /\ service' = [service EXCEPT !.pc = "done"]
    /\ \E error \in RequestErrors : returned' = [kind |-> "raised", error |-> error]
    /\ UNCHANGED <<requests, prompts>>
    /\ UNCHANGED <<batchVars, retryVars, queueVars, reviewVars>>

\* Number of buildPrompt calls the model makes.
MaxPrompts == 2

\* The source texts buildPrompt is called with.
PromptTexts == { "Hello world", "test" }

\* The part of AppConfig buildPrompt reads.
StyleConfigs ==
    [ tone : { "Professional", "Casual" },
      format : { "Paragraph", "JSON" },
      maxWords : { 100 },
      customFocus : { "", "key metrics" } ]

\* Mutant of BuildPrompt: the prompt carries the number of the call.
BuildPromptCounting(text, cfg) ==
    "Please summarize the following text. (" \o ToString(Len(prompts)) \o ")"
    \o "\n\nOriginal Text:\n\"" \o text \o "\"\n\nRequirements:"

\* buildPrompt(text, config)
BuildPrompt(text, cfg) ==
    "Please summarize the following text.\n\nOriginal Text:\n\"" \o text
    \o "\"\n\nRequirements:"
    \o "\n- Tone: " \o cfg.tone
    \o "\n- Format: " \o cfg.format
    \o "\n- Maximum Length: " \o ToString(cfg.maxWords) \o " words"
    \o "\n- LANGUAGE CONSTRAINT: The summary MUST be written in the EXACT SAME LANGUAGE"
    \o " as the Original Text. Do not translate."
    \o (IF cfg.customFocus # ""
        THEN "\n- Pay special attention to: " \o cfg.customFocus ELSE "")
    \o (IF cfg.format = "JSON"
        THEN "\n- Return the result as a valid JSON object with a 'summary' key"
             \o " and a 'key_points' array."
        ELSE "")

\* One call of buildPrompt: it assigns its local userPrompt only.
BuildPromptCall ==
    /\ Len(prompts) < MaxPrompts
    /\ \E text \in PromptTexts, cfg \in StyleConfigs :
          prompts' = Append(prompts, [text |-> text, config |-> cfg,
                                      prompt |-> BuildPrompt(text, cfg)])
    /\ UNCHANGED <<service, requests, returned>>
    /\ UNCHANGED <<batchVars, retryVars, queueVars, reviewVars>>

----------------------------------------------------------------------------
(* Specifications *)

\* The batch processor: any interleaving of processBatch, stopBatch, reset and the
\* settling of the calls in flight.
Init == BatchInit /\ RetryIdle /\ QueueQuiet /\ ReviewIdle /\ ServiceIdle

Next ==
    \/ ProcessBatch
    \/ StopBatch
    \/ ResetBatchStatus
    \/ \E r \in RunIds, c \in ActiveIds : GenerateResolves(r, c)
    \/ \E r \in RunIds, c \in ActiveIds : GenerateRejects(r, c)
    \/ \E r \in RunIds, c \in ActiveIds : EvaluateResolves(r, c)
    \/ \E r \in RunIds, c \in ActiveIds : EvaluateRejects(r, c)

Spec == Init /\ [][Next]_vars

\* One retryWithBackoff invocation, called directly or by generateGenericOpenAIRequest.
BatchQuiet ==
    /\ batchItems = [i \in 1..NumItems |-> NewItem(i)]
    /\ isGenerating = FALSE
    /\ abortControllerRef = Null
    /\ runs = [r \in RunIds |-> IdleRun]
    /\ started = 0
    /\ lastDone = NoneDone
    /\ config = MakeConfig(<<"cA", "cB">>, [useMainModelAsJudge |-> FALSE, judgeModel |-> ""])

InitRetry == BatchQuiet /\ RetryIdle /\ QueueQuiet /\ ReviewIdle /\ ServiceIdle

NextRetry ==
    \/ RetryWithBackoff
    \/ FnResolves
    \/ FnRejects
    \/ GenerateGenericOpenAIRequest
    \/ RequestSucceeds
    \/ RequestFails
    \/ TimerFires

SpecRetry == InitRetry /\ [][NextRetry]_vars

\* One RequestQueue: any interleaving of add() calls, poll timers and completions.
InitQueue == BatchQuiet /\ RetryIdle /\ QueueInit /\ ReviewIdle /\ ServiceIdle

NextQueue ==
    \/ \E f \in CallIds : Add(f)
    \/ PollTimerFires
    \/ \E f \in CallIds : TaskResolves(f)
    \/ \E f \in CallIds : TaskRejects(f)

SpecQueue == InitQueue /\ [][NextQueue]_vars

\* One RequestQueue whose callers keep submitting: every 100 ms timer fires and
\* every running task completes, while callers add tasks whenever they like.
NextQueueLive ==
    \/ NextQueue
    \/ \E f \in CallIds : AddAgain(f)

SpecQueueLive ==
    /\ InitQueue
    /\ [][NextQueueLive]_vars
    /\ WF_vars(PollTimerFires)
    /\ \A f \in CallIds : WF_vars(TaskResolves(f) \/ TaskRejects(f))

\* The batch processor, the run configuration panel and the result table: one
\* run, with the user toggling configurations and editing evaluations.
InitReview ==
    /\ BatchInit
    /\ config.judgeModel = "judge"
    /\ RetryIdle
    /\ QueueQuiet
    /\ ReviewIdle
    /\ ServiceIdle

NextReview ==
    \/ ProcessBatchOnce
    \/ StopBatch
    \/ ResetBatchStatus
    \/ \E r \in RunIds : \E c \in DOMAIN runs[r].task : GenerateResolves(r, c)
    \/ \E r \in RunIds : \E c \in DOMAIN runs[r].task : GenerateRejects(r, c)
    \/ \E r \in RunIds : \E c \in DOMAIN runs[r].task : EvaluateResolves(r, c)
    \/ \E r \in RunIds : \E c \in DOMAIN runs[r].task : EvaluateRejects(r, c)
    \/ ToggleActive
    \/ RowEdit

SpecReview == InitReview /\ [][NextReview]_vars

\* processBatch called while no run is at work (every earlier run has returned or
\* was cancelled), as the Generate button allows it.
ProcessBatchWhenIdle ==
    /\ \A r \in RunIds : runs[r].pc = "running" => runs[r].aborted
    /\ ProcessBatch

\* A generateSummary or evaluateSummary call in flight settles.
Settles ==
    \E r \in RunIds : \E c \in DOMAIN runs[r].task :
        \/ GenerateResolves(r, c)
        \/ GenerateRejects(r, c)
        \/ EvaluateResolves(r, c)
        \/ EvaluateRejects(r, c)

\* The batch processor with runs one after the other and calls that do not stay
\* in flight forever.
NextLive ==
    \/ ProcessBatchWhenIdle
    \/ StopBatch
    \/ Settles

SpecLive == Init /\ [][NextLive]_vars /\ WF_vars(Settles)

\* One call of evaluateSummary or of generateSummary, and the settling of its request.
InitService == BatchQuiet /\ RetryIdle /\ QueueQuiet /\ ReviewIdle /\ ServiceIdle

NextService ==
    \/ EvaluateSummary
    \/ JudgeResolves
    \/ JudgeRejects
    \/ GenerateSummary
    \/ SummaryResolves
    \/ SummaryRejects

SpecService == InitService /\ [][NextService]_vars

\* Calls of buildPrompt.
NextPrompt == BuildPromptCall

SpecPrompt == InitService /\ [][NextPrompt]_vars

----------------------------------------------------------------------------
(* Claims about the batch processor (checked under Spec) *)

Processing == { k \in DOMAIN batchItems : batchItems[k].status = "processing" }

Running(r) == runs[r].pc = "running"

\* C1: across any sequence of processBatch, stopBatch and reset calls, no two
\* work items are in status 'processing' at the same time.
C1_AtMostOneProcessing == Cardinality(Processing) <= 1

\* Position of item id in batchItems.
PositionOf(id) == CHOOSE k \in DOMAIN batchItems : batchItems[k].id = id

\* The tasks of run r's current item that have not settled.
Unsettled(r) == { c \in DOMAIN runs[r].task : runs[r].task[c] # "settled" }

\* C2: a run claims the selected items in the order of the input list, one at a
\* time: its selection keeps the list order, and whenever it marks the next item
\* 'processing' that item is the successor of its current one in the selection,
\* the current one has just had its last per-configuration task settle, and it is
\* written 'done' in the same update.
C2_ClaimsInInputOrder ==
    [][ \A r \in RunIds :
          /\ Running(r) =>
                \A i, j \in DOMAIN runs[r].pendingItems :
                    i < j => PositionOf(runs[r].pendingItems[i].id)
                               < PositionOf(runs[r].pendingItems[j].id)
          /\ (Running(r) /\ runs'[r].pc = "running" /\ runs'[r].idx # runs[r].idx) =>
                /\ runs'[r].idx = runs[r].idx + 1
                /\ runs'[r].pendingItems = runs[r].pendingItems
                /\ Cardinality(Unsettled(r)) = 1
                /\ batchItems'[PositionOf(runs[r].pendingItems[runs[r].idx].id)].status = "done"
                /\ batchItems'[PositionOf(runs'[r].pendingItems[runs'[r].idx].id)].status
                      = "processing" ]_vars

\* Witness of C2: a run has settled its first item and claimed the second.
C2_Witness ==
    \E r \in RunIds :
        /\ Running(r) /\ runs[r].idx = 2
        /\ batchItems[1].status = "done"
        /\ batchItems[2].status = "processing"

\* The text generateSummary returns to run configuration configId for the item.
TextFor(id, configId) ==
    GenText(batchItems[PositionOf(id)].sourceText,
            (CHOOSE c \in RunConfigurations : c.id = configId).model)

\* A run wrote an item back in this step.
WroteBack == lastDone' # lastDone

\* C3: isolation. When a run writes an item back and, for that item, the
\* generation of configuration a was rejected and that of configuration b
\* resolved, the item's results[b] is b's generated text, in either completion order.
C3_Isolation ==
    [][ WroteBack =>
          \A a, b \in DOMAIN lastDone'.outcome :
              (a # b /\ lastDone'.outcome[a] = "rejected" /\ lastDone'.outcome[b] = "resolved")
              => LET item == batchItems'[PositionOf(lastDone'.id)] IN
                    /\ b \in DOMAIN item.results
                    /\ item.results[b] = TextFor(lastDone'.id, b) ]_vars

\* Witness of C3: an item was written back with cA failed and cB succeeded, and
\* another with cB failed and cA succeeded.
C3_Witness ==
    /\ lastDone.run # 0
    /\ DOMAIN lastDone.outcome = {"cA", "cB"}
    /\ lastDone.outcome["cA"] = "rejected"
    /\ lastDone.outcome["cB"] = "resolved"
    /\ batchItems[PositionOf(lastDone.id)].results["cB"] = TextFor(lastDone.id, "cB")
    /\ batchItems[PositionOf(lastDone.id)].results["cA"] = "Error: boom"

\* C4: when a configuration's generation call rejects with message m and the run
\* is not cancelled, the item is written back 'done' with results[configId] =
\* "Error: " followed by m and a zero-score evaluation that carries a note.
C4_GenerationErrorRecorded ==
    [][ WroteBack =>
          \A c \in DOMAIN lastDone'.outcome :
              lastDone'.outcome[c] = "rejected"
              => LET item == batchItems'[PositionOf(lastDone'.id)] IN
                    /\ item.status = "done"
                    /\ c \in DOMAIN item.results
                    /\ \E m \in Messages : item.results[c] = "Error: " \o m
                    /\ c \in DOMAIN item.evaluations
                    /\ item.evaluations[c].score = 0
                    /\ item.evaluations[c].note # "" ]_vars

\* Witness of C4: an item is 'done' holding the error marker of a failed generation.
C4_Witness ==
    /\ lastDone.run # 0
    /\ "cA" \in DOMAIN lastDone.outcome
    /\ lastDone.outcome["cA"] = "rejected"
    /\ batchItems[PositionOf(lastDone.id)].status = "done"
    /\ batchItems[PositionOf(lastDone.id)].results["cA"] = "Error: boom"
    /\ batchItems[PositionOf(lastDone.id)].evaluations["cA"].note = "Generation failed"

\* The scenario of C5: run r is cancelled, the generation of fast resolved before
\* the cancellation (its text is in the run's itemResults), the generation of
\* slow is still in flight.
FastThenCancelled(r, fast, slow) ==
    /\ Running(r) /\ runs[r].aborted
    /\ fast # slow
    /\ fast \in DOMAIN runs[r].itemResults
    /\ fast \in DOMAIN runs[r].outcome /\ runs[r].outcome[fast] = "resolved"
    /\ slow \in DOMAIN runs[r].task /\ runs[r].task[slow] = "gen"

\* Run r's current item, as it is in batchItems.
ItemOf(r) == batchItems[PositionOf(CurrentItem(runs[r]).id)]

C6_NoUpdateAfterStop ==
    [][ \A r \in RunIds :
          (runs[r].aborted /\ runs'[r] # runs[r]) => batchItems' = batchItems ]_vars

\* Witness of C6: a cancelled run has ended after its dispatched calls completed,
\* and the item it had claimed is as it was when claimed.
C6_Witness ==
    \E r \in RunIds :
        /\ runs[r].pc = "finished" /\ runs[r].aborted
        /\ runs[r].outcome # NoEntries
        /\ batchItems[PositionOf(runs[r].pendingItems[1].id)].status = "processing"
        /\ batchItems[PositionOf(runs[r].pendingItems[1].id)].results = NoEntries
        /\ \A k \in DOMAIN batchItems : batchItems[k].status # "done"

----------------------------------------------------------------------------
(* Claims about retryWithBackoff and the request wrapper (checked under SpecRetry) *)

Last(seq) == seq[Len(seq)]

\* C7: retryWithBackoff(fn, maxRetries, baseDelay) with an fn that fails on every
\* call invokes fn exactly maxRetries + 1 times and then rejects with the error of
\* the last attempt (that Error itself, or an Error with the text of a thrown
\* value that is not an Error).
C7_AttemptsAndLastError ==
    caller = "direct" =>
        /\ fnCalls <= maxRetries + 1
        /\ rpc = "rejected" =>
              /\ fnCalls = maxRetries + 1
              /\ Len(thrown) = fnCalls
              /\ settled.isError
              /\ settled.text = Last(thrown).text
              /\ Last(thrown).isError => settled = Last(thrown)

\* Witness of C7: two retries, three failing calls, rejected with the third error.
C7_Witness ==
    /\ caller = "direct" /\ rpc = "rejected"
    /\ maxRetries = 2 /\ fnCalls = 3
    /\ thrown = << [isError |-> TRUE, text |-> "Fail 1"],
                   [isError |-> FALSE, text |-> "oops"],
                   [isError |-> TRUE, text |-> "Fail 2"] >>
    /\ settled = [isError |-> TRUE, text |-> "Fail 2"]

\* C8: the wait after failed attempt k (0-based) is baseDelay * 2^k; the first
\* call is made without a wait, every later call after exactly one wait, and no
\* wait follows the final failed attempt.
C8_ExponentialDelays ==
    caller # "none" =>
        /\ \A k \in 1..Len(delays) : delays[k] = baseDelay * 2^(k - 1)
        /\ rpc = "calling" => Len(delays) = fnCalls - 1
        /\ rpc = "sleeping" => Len(delays) = fnCalls /\ Len(thrown) = fnCalls
        /\ rpc \in {"rejected", "resolved"} => Len(delays) = fnCalls - 1

\* Witness of C8: three retries of a 1000 ms base, all four calls failed.
C8_Witness ==
    /\ caller = "direct" /\ rpc = "rejected"
    /\ baseDelay = 1000 /\ maxRetries = 3 /\ fnCalls = 4
    /\ delays = <<1000, 2000, 4000>>

\* The claim of C9 as stated: one generateGenericOpenAIRequest invocation makes
\* at most 3 HTTP requests.
C9_AtMostThreeAttempts == caller = "invoker" => fnCalls <= 3

\* C9 (amended): one generateGenericOpenAIRequest invocation makes at most 4 HTTP
\* requests, the first and 3 retries, and exactly 4 when every one fails.
C9_AtMostFourAttempts ==
    caller = "invoker" =>
        /\ fnCalls <= 4
        /\ rpc = "rejected" => fnCalls = 4

\* Witness of C9: the invocation was rejected after its fourth request.
C9_Witness == caller = "invoker" /\ rpc = "rejected" /\ fnCalls = 4

\* The texts of the errors of each class.
AuthText == "Authentication failed: Invalid API key"

NotFoundText == "Model \"m1\" not found or endpoint incorrect"

RateLimitText == "Rate limit exceeded. Please try again later."

\* C10: generateGenericOpenAIRequest retries every failed request in the same
\* way whatever its error class: each of the first three failures, a 401 or a
\* 404 like a 429, a 5xx or a network failure, is followed by the wait
\* 1000 * 2^k, and the invocation is rejected only by the fourth failure.
C10_UniformRetry ==
    caller = "invoker" =>
        /\ \A k \in 1..Len(thrown) :
              k <= 3 => Len(delays) >= k /\ delays[k] = 1000 * 2^(k - 1)
        /\ rpc = "rejected" => Len(thrown) = 4
        /\ rpc = "sleeping" => Len(thrown) = Len(delays)

\* Witness of C10: a 401, a 404 and a 429 were each waited out and retried.
C10_Witness ==
    /\ caller = "invoker" /\ rpc = "calling" /\ fnCalls = 4
    /\ thrown = << [isError |-> TRUE, text |-> AuthText],
                   [isError |-> TRUE, text |-> NotFoundText],
                   [isError |-> TRUE, text |-> RateLimitText] >>
    /\ delays = <<1000, 2000, 4000>>

----------------------------------------------------------------------------
(* Claims about RequestQueue (checked under SpecQueue) *)

Executing == { f \in CallIds : call[f] = "running" }

Completed == { f \in CallIds : call[f] \in {"resolved", "rejected"} }

\* C11: the number of tasks executing at once, which is what getRunningCount()
\* returns, never exceeds maxConcurrent.
C11_ConcurrencyLimit ==
    /\ GetRunningCount = Cardinality(Executing)
    /\ Cardinality(Executing) <= maxConcurrent

\* Witness of C11: the queue is at capacity and another call has to wait.
C11_Witness ==
    /\ maxConcurrent = 2
    /\ Cardinality(Executing) = 2
    /\ \E f \in CallIds : call[f] = "waiting"

\* C12: the running count is decremented exactly once per started task, on
\* resolve and on reject alike; it is never negative, and it is 0, with isFull()
\* false, once every submitted task has completed.
C12_SlotReleased ==
    /\ \A f \in CallIds : releases[f] = IF f \in Completed THEN 1 ELSE 0
    /\ GetRunningCount >= 0
    /\ (addOrder # <<>> /\ \A f \in Range(addOrder) : f \in Completed) =>
            GetRunningCount = 0 /\ ~IsFull

\* Witness of C12: all three calls were made, one had to wait, and all have
\* completed, some resolved and some rejected.
C12_Witness ==
    /\ Completed = CallIds
    /\ maxConcurrent = 1
    /\ \E f, g \in CallIds : call[f] = "resolved" /\ call[g] = "rejected"
    /\ GetRunningCount = 0

\* C13: tasks begin executing in the order in which add() was called: the calls
\* that have started are, in start order, a prefix of the calls in add order.
C13_StartInAddOrder ==
    \A k \in DOMAIN startOrder : startOrder[k] = addOrder[k]

----------------------------------------------------------------------------
(* Claims about the item collection (checked under Spec) *)

\* C14: after the reset operation every item has status 'pending', results = {}
\* and evaluations = {}, and its id, sourceText and referenceSummary are what
\* they were; no item is added or removed.
C14_ResetCorrectness ==
    [][ ResetBatchStatus =>
          /\ DOMAIN batchItems' = DOMAIN batchItems
          /\ \A k \in DOMAIN batchItems :
                /\ batchItems'[k].status = "pending"
                /\ batchItems'[k].results = NoEntries
                /\ batchItems'[k].evaluations = NoEntries
                /\ batchItems'[k].id = batchItems[k].id
                /\ batchItems'[k].sourceText = batchItems[k].sourceText
                /\ batchItems'[k].referenceSummary = batchItems[k].referenceSummary ]_vars

\* Witness of C14: a run has written an item back with results and evaluations,
\* and the reset has since emptied every item.
C14_Witness ==
    /\ lastDone.run # 0
    /\ "rejected" \in Range(lastDone.outcome)
    /\ \A k \in DOMAIN batchItems :
          /\ batchItems[k].status = "pending"
          /\ batchItems[k].results = NoEntries
          /\ batchItems[k].evaluations = NoEntries
    /\ batchItems[1].referenceSummary = "ref1"

\* The effective judge model of configuration id c: the run configuration's
\* model when useMainModelAsJudge is set, otherwise config.judgeModel.
EffectiveJudgeModel(c) ==
    IF config.useMainModelAsJudge
    THEN (CHOOSE rc \in RunConfigurations : rc.id = c).model
    ELSE config.judgeModel

\* C17: an item becomes 'done' in one update that writes status, results and
\* evaluations together. While an item is 'processing' its results and
\* evaluations stay what they were when it was claimed, and the update that
\* makes it 'done' writes an entry of results for every configuration whose
\* generation ended and, with it, every evaluation entry that belongs to it.
C17_DoneIsAtomic ==
    [][ \A k \in DOMAIN batchItems :
          LET old == batchItems[k]
              new == batchItems'[k]
          IN /\ new.status = "processing" =>
                    new.results = old.results /\ new.evaluations = old.evaluations
             /\ (new.status = "done" /\ new # old) =>
                    /\ lastDone'.id = new.id
                    /\ DOMAIN new.results = DOMAIN lastDone'.outcome
                    /\ \A c \in DOMAIN new.results :
                          c \in DOMAIN new.evaluations
                            <=> (lastDone'.outcome[c] = "rejected" \/ EffectiveJudgeModel(c) # "")
        ]_vars

\* Witness of C17: one item is 'done' with a result and an evaluation, and the
\* next one is 'processing' with both maps still empty while a judge call for it
\* is in flight.
C17_Witness ==
    /\ batchItems[1].status = "done"
    /\ "cA" \in DOMAIN batchItems[1].results
    /\ "cA" \in DOMAIN batchItems[1].evaluations
    /\ batchItems[2].status = "processing"
    /\ batchItems[2].results = NoEntries /\ batchItems[2].evaluations = NoEntries
    /\ \E r \in RunIds : Waiting(r, "cA", "eval") /\ CurrentItem(runs[r]).id = 2

\* C18: no item ever has status 'error': whatever generation or evaluation
\* failures occur, an item is 'pending', 'processing' or 'done'.
C18_NoErrorStatus ==
    \A k \in DOMAIN batchItems : batchItems[k].status \in {"pending", "processing", "done"}

\* Witness of C18: an item is 'done' after a failed evaluation, another after a
\* failed generation.
C18_Witness ==
    \E i, j \in DOMAIN batchItems :
        /\ batchItems[i].status = "done" /\ batchItems[j].status = "done"
        /\ "cA" \in DOMAIN batchItems[i].evaluations
        /\ batchItems[i].evaluations["cA"].note = "Evaluation failed"
        /\ "cA" \in DOMAIN batchItems[j].evaluations
        /\ batchItems[j].evaluations["cA"].note = "Generation failed"

\* C19: when a generation returns text t and the run is not cancelled, the item
\* is written back 'done' with results[configId] = t, and evaluations[configId]
\* is present if and only if the effective judge model is not empty.
C19_SuccessRecorded ==
    [][ WroteBack =>
          \A c \in DOMAIN lastDone'.outcome :
              lastDone'.outcome[c] = "resolved"
              => LET item == batchItems'[PositionOf(lastDone'.id)] IN
                    /\ item.status = "done"
                    /\ c \in DOMAIN item.results
                    /\ item.results[c] = TextFor(lastDone'.id, c)
                    /\ c \in DOMAIN item.evaluations <=> EffectiveJudgeModel(c) # "" ]_vars

\* Witness of C19: with useMainModelAsJudge set and config.judgeModel empty, an
\* item is 'done' with the generated text and an evaluation by the judge.
C19_Witness ==
    /\ config.useMainModelAsJudge /\ config.judgeModel = ""
    /\ lastDone.run # 0
    /\ lastDone.outcome = [c \in {"cA"} |-> "resolved"]
    /\ LET item == batchItems[PositionOf(lastDone.id)] IN
          /\ item.status = "done"
          /\ item.results["cA"] = TextFor(lastDone.id, "cA")
          /\ "cA" \in DOMAIN item.evaluations
          /\ item.evaluations["cA"].note = "ok"

IdsOf(items) == [k \in DOMAIN items |-> items[k].id]

\* The active configuration ids that resolve to a run configuration.
ValidActiveIds == { c \in ActiveIds : \E rc \in RunConfigurations : rc.id = c }

\* The pairs of a selected item and a valid active configuration of a run.
PairsOf(run) == { <<it.id, c>> : it \in Range(run.pendingItems), c \in ValidActiveIds }

\* C20: a run selects, in list order, exactly the items that are not 'done' when
\* processBatch is called and keeps that selection; a run that ends without
\* being cancelled has invoked generateSummary exactly once for every pair of a
\* selected item and an active configuration id that resolves to a run
\* configuration, and for nothing else.
C20_GenerateOncePerPair ==
    [][ \A r \in RunIds :
          /\ (runs[r].pc = "idle" /\ runs'[r].pc # "idle") =>
                IdsOf(runs'[r].pendingItems)
                  = IdsOf(SelectSeq(batchItems, LAMBDA i : i.status # "done"))
          /\ (runs[r].pc = "running" /\ ~runs'[r].aborted) =>
                runs'[r].pendingItems = runs[r].pendingItems
          /\ (runs'[r].pc = "finished" /\ ~runs'[r].aborted) =>
                /\ Range(runs'[r].calls) = PairsOf(runs'[r])
                /\ Len(runs'[r].calls) = Cardinality(PairsOf(runs'[r])) ]_vars

\* Witness of C20: a run that started when item 1 was already 'done' has ended
\* without being cancelled, after one generateSummary call per configuration for
\* items 2 and 3.
C20_Witness ==
    \E r \in RunIds :
        /\ runs[r].pc = "finished" /\ ~runs[r].aborted
        /\ IdsOf(runs[r].pendingItems) = <<2, 3>>
        /\ runs[r].calls = << <<2, "cA">>, <<2, "cB">>, <<3, "cA">>, <<3, "cB">> >>

\* C21: the promise of processBatch never rejects, whatever generation and
\* judge calls fail and whenever stopBatch is called, and isGenerating is false
\* at the moment a run ends.
C21_NeverRejects ==
    [][ \A r \in RunIds :
          /\ runs'[r].promise # "rejected"
          /\ runs'[r].pc = "finished" <=> runs'[r].promise = "resolved"
          /\ (runs[r].pc # "finished" /\ runs'[r].pc = "finished") => isGenerating' = FALSE
        ]_vars

\* Witness of C21: one run was cancelled and has ended, another has ended after
\* a failed generation and a failed judge call; both promises resolved.
C21_Witness ==
    /\ \E r \in RunIds : runs[r].promise = "resolved" /\ runs[r].aborted
    /\ \E r \in RunIds : runs[r].promise = "resolved" /\ ~runs[r].aborted
    /\ \E i, j \in DOMAIN batchItems :
          /\ "cA" \in DOMAIN batchItems[i].evaluations
          /\ batchItems[i].evaluations["cA"].note = "Generation failed"
          /\ "cA" \in DOMAIN batchItems[j].evaluations
          /\ batchItems[j].evaluations["cA"].note = "Evaluation failed"
    /\ isGenerating = FALSE

\* C22: a run whose activeRunConfigs holds an id that matches no run
\* configuration ends with its promise rejected.
C22_InvalidReferencePropagates ==
    \A r \in RunIds :
        (runs[r].pc = "finished" /\ \E c \in ActiveIds : ~HasRunConfig(config, c))
            => runs[r].promise = "rejected"

----------------------------------------------------------------------------
(* Claims about the item collection under manual updates (checked under SpecReview) *)

\* C15: in every reachable state, an item whose status is 'pending' has empty
\* results and empty evaluations.
C15_PendingIsEmpty ==
    \A k \in DOMAIN batchItems :
        batchItems[k].status = "pending" =>
            batchItems[k].results = NoEntries /\ batchItems[k].evaluations = NoEntries

\* C16: when a run writes an item back as 'done', the keys of its results and
\* the keys of its evaluations are among the configuration ids that are active
\* at that moment.
C16_KeysWithinActive ==
    [][ WroteBack =>
          LET item == batchItems'[PositionOf(lastDone'.id)]
          IN /\ DOMAIN item.results \subseteq ActiveIds
             /\ DOMAIN item.evaluations \subseteq ActiveIds ]_vars

----------------------------------------------------------------------------
(* Claims about evaluateSummary and generateSummary (checked under SpecService) *)

\* s is empty or consists of whitespace only.
Blank(s) == \A i \in 1..Len(s) : SubSeq(s, i, i) \in { " ", "\n", "\t" }

\* needle occurs in text.
Contains(text, needle) ==
    \E i \in 1..(Len(text) - Len(needle) + 1) :
        SubSeq(text, i, i + Len(needle) - 1) = needle

StartsWith(text, prefix) ==
    Len(prefix) <= Len(text) /\ SubSeq(text, 1, Len(prefix)) = prefix

MissingTextNote == "Evaluation failed: Missing original text or generated summary"

NotConfiguredNote == "Evaluation failed: Judge model or endpoint not configured"

NoCriteriaNote == "Evaluation failed: No criteria defined"

\* C23: a call of evaluateSummary whose source text or generated text is empty
\* or whitespace, whose judge model or endpoint is unset, or whose criteria are
\* empty has returned at once: a zero-score evaluation whose note names a
\* condition that holds, and no request was made.
C23_FailFast ==
    LET a == service.args IN
    ( /\ service.op = "evaluateSummary"
      /\ \/ Blank(a.originalText) \/ Blank(a.generatedSummary)
         \/ Blank(a.model) \/ Blank(a.endpoint)
         \/ a.criteria = <<>> )
    => /\ service.pc = "done"
       /\ requests = 0
       /\ returned.kind = "value"
       /\ returned.value.score = 0
       /\ returned.value.note \in { MissingTextNote, NotConfiguredNote, NoCriteriaNote }
       /\ returned.value.note = MissingTextNote
             => Blank(a.originalText) \/ Blank(a.generatedSummary)
       /\ returned.value.note = NotConfiguredNote => Blank(a.model) \/ Blank(a.endpoint)
       /\ returned.value.note = NoCriteriaNote => a.criteria = <<>>

\* Witness of C23: evaluateSummary was called with texts, a whitespace-only judge
\* model and no criteria; it returned the 'not configured' evaluation without a request.
C23_Witness ==
    /\ service.op = "evaluateSummary"
    /\ service.pc = "done"
    /\ service.args.originalText = " Original text. "
    /\ service.args.generatedSummary = "Summary."
    /\ service.args.model = " "
    /\ service.args.criteria = <<>>
    /\ returned = Fulfilled(ZeroEvaluation(NotConfiguredNote, FALSE))
    /\ requests = 0

\* The number x brought to the nearest end of the scale 0..10 when outside it.
Saturated(x) == IF x < 0 THEN 0 ELSE IF x > 10 THEN 10 ELSE x

\* C24: whatever the judge answered, the score of the evaluation returned lies
\* in 0..10 and so does every entry of its criteriaScores; each is the judge's
\* own number for it, saturated by itself.
C24_ScoresClamped ==
    (service.op = "evaluateSummary" /\ returned.kind = "value")
    => /\ returned.value.score \in 0..10
       /\ returned.value.criteriaScores # Undefined =>
             \A k \in DOMAIN returned.value.criteriaScores[1] :
                 returned.value.criteriaScores[1][k] \in 0..10
       /\ ("response" \in DOMAIN service /\ service.response.valid
                                         /\ ~service.response.value.isNull) =>
             LET result == service.response.value IN
             /\ result.score.type = "number"
                   => returned.value.score = Saturated(result.score.n)
             /\ result.criteriaScores.type = "object" =>
                   \A k \in CriterionNames :
                       result.criteriaScores.entries[k].type = "number" =>
                           /\ k \in DOMAIN returned.value.criteriaScores[1]
                           /\ returned.value.criteriaScores[1][k]
                                 = Saturated(result.criteriaScores.entries[k].n)

\* Witness of C24: the judge answered score 15 with ACCURACY -1 and CLARITY 11;
\* the evaluation returned has score 10, ACCURACY 0 and CLARITY 10.
C24_Witness ==
    /\ service.op = "evaluateSummary"
    /\ service.pc = "done"
    /\ "response" \in DOMAIN service
    /\ service.response.valid
    /\ service.response.value.score = JsNumber(15)
    /\ service.response.value.criteriaScores.type = "object"
    /\ service.response.value.criteriaScores.entries["ACCURACY"] = JsNumber(-1)
    /\ service.response.value.criteriaScores.entries["CLARITY"] = JsNumber(11)
    /\ returned.kind = "value"
    /\ returned.value.score = 10
    /\ returned.value.criteriaScores[1]["ACCURACY"] = 0
    /\ returned.value.criteriaScores[1]["CLARITY"] = 10

\* C25: evaluateSummary never raises: once the call is over it has returned an
\* evaluation; when the request to the judge failed, or its response was not
\* valid JSON, that evaluation has score 0 and a note that explains the failure.
C25_NeverRaises ==
    service.op = "evaluateSummary"
    => /\ returned.kind # "raised"
       /\ service.pc = "done" => returned.kind = "value"
       /\ "error" \in DOMAIN service =>
             /\ returned.value.score = 0
             /\ returned.value.note = "Evaluation failed: " \o service.error.text
       /\ ("response" \in DOMAIN service /\ ~service.response.valid) =>
             /\ returned.value.score = 0
             /\ StartsWith(returned.value.note, "Error parsing evaluator response: ")
             /\ Len(returned.value.note) > Len("Error parsing evaluator response: ")

\* Witness of C25: the request to the judge was made and rejected; evaluateSummary
\* returned a zero-score evaluation whose note carries the error's message.
C25_Witness ==
    /\ service.op = "evaluateSummary"
    /\ service.pc = "done"
    /\ requests = 1
    /\ "error" \in DOMAIN service
    /\ returned.kind = "value"
    /\ returned.value.score = 0
    /\ returned.value.note = "Evaluation failed: Rate limit exceeded. Please try again later."

\* A reference text with something other than whitespace in it was supplied.
ReferenceSupplied(referenceSummary) ==
    referenceSummary # Undefined /\ ~Blank(referenceSummary[1])

\* C26: on every return path of evaluateSummary, comparedToReference is true
\* exactly when a non-empty reference text was supplied.
C26_ComparedIffReference ==
    (service.op = "evaluateSummary" /\ service.pc = "done")
    => (returned.value.comparedToReference
           <=> ReferenceSupplied(service.args.referenceSummary))

\* C26, as the code has it: comparedToReference is true exactly when a reference
\* text that is not blank was supplied and the arguments passed the checks at the
\* head of evaluateSummary (the request to the judge was made), whatever the
\* judge returned; the evaluations returned at once carry false.
C26_ComparedIffReferenceJudged ==
    (service.op = "evaluateSummary" /\ service.pc = "done")
    => (returned.value.comparedToReference
           <=> (ReferenceSupplied(service.args.referenceSummary) /\ requests = 1))

\* Witness of C26: a reference was supplied, the judge's response was not valid
\* JSON, and the evaluation returned carries comparedToReference = true.
C26_Witness ==
    /\ service.op = "evaluateSummary"
    /\ service.pc = "done"
    /\ service.args.referenceSummary = Some("Gold summary.")
    /\ "response" \in DOMAIN service
    /\ ~service.response.valid
    /\ returned.value.comparedToReference = TRUE

\* The messages of validateSummaryInputs and of the model check of generateSummary.
ValidationMessages ==
    { "Input text is required and cannot be empty",
      "Cloud endpoint is required for cloud provider",
      "API key is required for cloud provider",
      "Local endpoint is required for local provider",
      "No model selected. Please select at least one model." }

\* C29: a call of generateSummary with an empty or whitespace text, with no
\* model selected, with the cloud provider lacking its endpoint or API key, or
\* with the local provider lacking its endpoint has rejected with a validation
\* error, and no request (hence no retry) was made.
C29_ValidatesBeforeRequest ==
    LET a == service.args IN
    ( /\ service.op = "generateSummary"
      /\ \/ Blank(a.text)
         \/ (a.modelOverride = "" /\ a.config.activeModels = <<>>)
         \/ (a.config.provider = "cloud"
                /\ (Blank(a.config.cloudEndpoint) \/ Blank(a.config.cloudApiKey)))
         \/ (a.config.provider = "local" /\ Blank(a.config.localEndpoint)) )
    => /\ service.pc = "done"
       /\ requests = 0
       /\ returned.kind = "raised"
       /\ returned.error.isError
       /\ returned.error.text \in ValidationMessages

\* Witness of C29: generateSummary was called for the cloud provider with a text,
\* an endpoint, a model and a whitespace-only API key; it rejected with the API
\* key message and made no request.
C29_Witness ==
    /\ service.op = "generateSummary"
    /\ service.pc = "done"
    /\ service.args.text = " Original text. "
    /\ service.args.config.provider = "cloud"
    /\ service.args.config.cloudEndpoint = "https://cloud/v1"
    /\ service.args.config.cloudApiKey = " "
    /\ service.args.config.activeModels = <<"m1">>
    /\ returned = Raised("API key is required for cloud provider")
    /\ requests = 0

----------------------------------------------------------------------------
(* Claims about the responses of generateGenericOpenAIRequest (checked under SpecRetry) *)

\* The latest fetch of the invoker ended in a response.
Responded == caller = "invoker" /\ lastFetch.kind = "response"

\* C27: a response that is not 2xx is turned into the error of its class (401
\* authentication, 429 rate limit, 404 not found, 500 and above server error,
\* anything else the generic API error), and the message of that error includes
\* the status and the body of the response.
C27_StatusMapping ==
    (Responded /\ ~(200 <= lastFetch.status /\ lastFetch.status <= 299))
    => LET text == Last(thrown).text
           status == lastFetch.status
       IN /\ status = 401 <=> StartsWith(text, "Authentication failed")
          /\ status = 429 <=> StartsWith(text, "Rate limit exceeded")
          /\ status = 404 <=> Contains(text, "not found or endpoint incorrect")
          /\ status >= 500 <=> StartsWith(text, "Server error")
          /\ status \notin {401, 429, 404} /\ status < 500 <=> StartsWith(text, "API Error")
          /\ Contains(text, ToString(status))
          /\ Contains(text, lastFetch.body)

ContentFilterText == "Azure OpenAI Content Filter triggered. Please modify your prompt."

----------------------------------------------------------------------------
(* Claims about the ground-truth mark (checked under SpecReview) *)

\* The configurations whose evaluation of the item is marked as ground truth.
GroundTruths(item) ==
    { m \in DOMAIN item.evaluations : item.evaluations[m].isGroundTruth }

\* C30: in every reachable state, every item has at most one evaluation with
\* isGroundTruth = true.
C30_OneGroundTruth ==
    \A k \in DOMAIN batchItems : Cardinality(GroundTruths(batchItems[k])) <= 1

\* Witness of C30: an item has evaluations for two configurations, the mark was
\* set twice, and only the evaluation of cB carries it.
C30_Witness ==
    /\ edits = 2
    /\ \E k \in DOMAIN batchItems :
          /\ {"cA", "cB"} \subseteq DOMAIN batchItems[k].evaluations
          /\ ~batchItems[k].evaluations["cA"].isGroundTruth
          /\ batchItems[k].evaluations["cB"].isGroundTruth

----------------------------------------------------------------------------
(* Claims about buildPrompt (checked under SpecPrompt) *)

----------------------------------------------------------------------------
(* Claims about the calls a run makes (checked under Spec) *)

\* C32: within one per-configuration task, evaluateSummary is in flight only
\* after the generateSummary call of the same task and item has returned its
\* text: never for a configuration whose generation failed, and never while the
\* generation is still in flight.
C32_JudgeAfterGeneration ==
    [][ \A r \in RunIds : \A c \in DOMAIN runs'[r].task :
          runs'[r].task[c] = "eval" =>
              /\ c \in DOMAIN runs'[r].outcome
              /\ runs'[r].outcome[c] = "resolved"
              /\ c \in DOMAIN runs'[r].itemResults
              /\ runs'[r].itemResults[c] = TextFor(CurrentItem(runs'[r]).id, c)
              /\ runs[r].pc = "running"
              /\ runs'[r].idx = runs[r].idx
              /\ c \in DOMAIN runs[r].task
              /\ runs[r].task[c] \in {"gen", "eval"}
              /\ runs[r].task[c] = "gen" => c \notin DOMAIN runs[r].outcome ]_vars

\* Witness of C32: the generation of cA has returned and its judge call is in flight.
C32_Witness ==
    \E r \in RunIds :
        /\ Running(r)
        /\ runs[r].task["cA"] = "eval"
        /\ runs[r].outcome["cA"] = "resolved"
        /\ runs[r].itemResults["cA"] = TextFor(CurrentItem(runs[r]).id, "cA")

\* C33: once stopBatch has cancelled a run, no step starts a generateSummary or
\* evaluateSummary call of that run: its tasks in flight are those that were in
\* flight, it makes no further call, moves to no further item and marks no item
\* 'processing'.
C33_NoCallAfterStop ==
    [][ \A r \in RunIds :
          runs[r].aborted =>
              /\ \A c \in DOMAIN runs'[r].task :
                    runs'[r].task[c] \in {"gen", "eval"} =>
                        c \in DOMAIN runs[r].task /\ runs'[r].task[c] = runs[r].task[c]
              /\ Len(runs'[r].calls) <= Len(runs[r].calls)
              /\ runs'[r].pc = "running" => runs'[r].idx = runs[r].idx
              /\ runs'[r] # runs[r] =>
                    \A k \in DOMAIN batchItems :
                        batchItems'[k].status = "processing"
                            => batchItems[k].status = "processing" ]_vars

\* Witness of C33: with a judge configured, a run was cancelled while the
\* generation of cA was in flight; the generation then returned, no judge call
\* was made and the run ended.
C33_Witness ==
    /\ config.judgeModel = "judge"
    /\ \E r \in RunIds :
          /\ runs[r].pc = "finished" /\ runs[r].aborted
          /\ "cA" \in DOMAIN runs[r].outcome
          /\ runs[r].outcome["cA"] = "resolved"
          /\ "cA" \notin DOMAIN runs[r].itemResults

----------------------------------------------------------------------------
(* Claims about the termination of a run (checked under SpecLive) *)

----------------------------------------------------------------------------
(* Claims about what a run leaves alone (checked under Spec) *)

\* The positions whose item this step changes.
ChangedItems == { k \in DOMAIN batchItems : batchItems'[k] # batchItems[k] }

\* The ids of the items a step of run r may write: the item the run is at and
\* the next one of its selection (the first one in the step that starts the run).
Touchable(r) ==
    IF runs[r].pc = "running"
    THEN { runs[r].pendingItems[i].id :
             i \in { runs[r].idx, runs[r].idx + 1 } \cap DOMAIN runs[r].pendingItems }
    ELSE { runs'[r].pendingItems[i].id : i \in {1} \cap DOMAIN runs'[r].pendingItems }

\* C35: no step changes the id, sourceText or referenceSummary of an item or the
\* length of the collection; a step of a run changes only items of the run's
\* selection (those not 'done' when processBatch was called), and among them
\* only the item it is at and the one it claims next.
C35_Frame ==
    [][ /\ DOMAIN batchItems' = DOMAIN batchItems
        /\ \A k \in DOMAIN batchItems :
              /\ batchItems'[k].id = batchItems[k].id
              /\ batchItems'[k].sourceText = batchItems[k].sourceText
              /\ batchItems'[k].referenceSummary = batchItems[k].referenceSummary
        /\ \A r \in RunIds :
              runs'[r] # runs[r] =>
                  /\ \A k \in ChangedItems : batchItems[k].id \in Touchable(r)
                  /\ runs[r].pc = "idle" =>
                        \A k \in DOMAIN batchItems :
                            batchItems[k].status = "done" => batchItems'[k] = batchItems[k]
                  /\ runs[r].pc = "running" =>
                        \A k \in ChangedItems :
                            \E i \in DOMAIN runs[r].pendingItems :
                                runs[r].pendingItems[i].id = batchItems[k].id ]_vars

\* Witness of C35: a run called when item 1 was 'done' has selected items 2 and
\* 3, written item 2 'done' and claimed item 3; item 1 is 'done' with its results.
C35_Witness ==
    \E r \in RunIds :
        /\ Running(r) /\ ~runs[r].aborted
        /\ IdsOf(runs[r].pendingItems) = <<2, 3>>
        /\ runs[r].idx = 2
        /\ lastDone.run = r /\ lastDone.id = 2
        /\ batchItems[1].status = "done" /\ batchItems[1].results # NoEntries
        /\ batchItems[2].status = "done"
        /\ batchItems[3].status = "processing"

----------------------------------------------------------------------------
(* Claims about cancellation and the hook's own state (checked under Spec) *)

\* C36: once a cancelled run has returned and no run is at work, no item is in
\* status 'processing'.
C36_NoProcessingAfterCancel ==
    ( /\ \E r \in RunIds : runs[r].pc = "finished" /\ runs[r].aborted
      /\ \A r \in RunIds : ~Running(r) )
    => Processing = {}

\* C37: isGenerating is true whenever a run that was not cancelled is at work.
C37_GeneratingWhileRunning ==
    (\E r \in RunIds : Running(r) /\ ~runs[r].aborted) => isGenerating

\* C38: while the run started last is at work and not cancelled,
\* abortControllerRef holds its controller, so that stopBatch cancels it.
C38_HandleOfNewestRun ==
    (started > 0 /\ Running(started) /\ ~runs[started].aborted)
    => abortControllerRef = started

----------------------------------------------------------------------------
(* Claims about the progress of the RequestQueue (checked under SpecQueueLive) *)

\* C39: every add() call that has to wait eventually gets a slot, runs its task
\* and settles, also while other callers keep submitting tasks.
C39_NoStarvation ==
    \A f \in CallIds : (call[f] = "waiting") ~> (call[f] \in {"resolved", "rejected"})

----------------------------------------------------------------------------
(* Claims about the end of retryWithBackoff (checked under SpecRetry) *)

\* What the call has done when it returns after k = Len(thrown) failures: k + 1
\* invocations of fn, one wait per failure, and the value of the last invocation.
StoppedAtFirstSuccess ==
    /\ Len(thrown) <= maxRetries
    /\ fnCalls = Len(thrown) + 1
    /\ Len(delays) = Len(thrown)
    /\ attempt = Len(thrown)
    /\ settled = (IF caller = "direct" THEN "success" ELSE lastFetch.content)

\* C40: when fn fails on its first k calls (k <= maxRetries) and then succeeds,
\* retryWithBackoff returns the success value after exactly k + 1 invocations of
\* fn and k waits, and once it has returned nothing more is invoked or awaited.
C40_StopsAtFirstSuccess ==
    [][ /\ rpc' = "resolved" => StoppedAtFirstSuccess'
        /\ rpc = "resolved" => UNCHANGED retryVars ]_vars

\* fn failed twice and then succeeded: three invocations, two waits.
C40_Witness ==
    /\ caller = "direct"
    /\ rpc = "resolved"
    /\ Len(thrown) = 2
    /\ fnCalls = 3
    /\ Len(delays) = 2
    /\ settled = "success"

====
